---- MODULE Spec2Model ----
(***************************************************************************)
(* Model of persistent-hnsw: the binary heap, the HNSW index, the shard    *)
(* codec and the ShardManager that routes inserts, fans out searches and   *)
(* keeps shards resident against a key-value store.                        *)
(*                                                                         *)
(* Arrays of the source are 0-based; sequences here are 1-based, so slot i *)
(* of an array is element i + 1 of its sequence (see At).  A typed array   *)
(* of `capacity` slots is kept as the sequence of its first `count` slots; *)
(* the slots from count up to capacity are never written by the code and   *)
(* hold the fill value (0, or SENTINEL for adjacency).  The Map            *)
(* externalToInternal is the set of its <<external id, internal id>>       *)
(* entries.  Vectors hold small integers, which Float32Array stores        *)
(* exactly; the metric is euclidean.                                       *)
(***************************************************************************)
EXTENDS Integers, Sequences, FiniteSets, TLC

\* ---------------------------------------------------------------- bounds
MaxSteps == 4       \* a run makes at most this many manager operations
MaxLevel == 1       \* levels drawn by randomLevel range over 0..MaxLevel
MaxCoord == 1       \* vector coordinates range over 0..MaxCoord
MaxK == 2           \* search asks for k in 1..MaxK
LongSteps == 7      \* a long run makes at most this many manager operations
IndexSteps == 4     \* a run on one index makes at most this many operations
MaxM == 2           \* M and Mmax0 range over 1..MaxM
FaultySteps == 5    \* a run over a faulty store makes at most this many operations
RngDraws == 16      \* a generator is called at most this many times
PairSteps == 3      \* a run on two indexes makes at most this many operations
AsyncSteps == 4     \* a run around one search in flight makes at most this many calls
SelectSteps == 5    \* a run of inserts and one neighbor selection makes at most this many calls
WideSteps == 258    \* a run on an index with wide rows makes at most this many inserts
LoopSteps == 3      \* a run that follows insert's loop over the layers makes at most this many calls
ResizeSteps == 4    \* a run that reallocates the arrays of an index makes at most this many calls
FlightSteps == 4    \* a run around one flush in flight makes at most this many calls
MaxLayers == 3      \* a loop over the layers that cannot end is followed for this many rounds
TallSteps == 3      \* a run on an index with hundreds of layers makes at most this many inserts

\* ------------------------------------------------------ program constants
\* 0xFFFFFFFF, the empty adjacency slot; kept as the same 32 bits read as a
\* signed integer, which no internal id equals either.
SENTINEL == -1
INITIAL_CAPACITY == 1024

IdOrder == << "a", "b", "c" >>
Ids == {IdOrder[i] : i \in 1..Len(IdOrder)}
Levels == 0..MaxLevel
NoKey == -1          \* currentShardKey === null

At(seq, i) == seq[i + 1]

Max2(a, b) == IF a >= b THEN a ELSE b
Min2(a, b) == IF a <= b THEN a ELSE b

\* ------------------------------------------------------------ BinaryHeap
\* A heap is the sequence `data`; isMin selects the comparator:
\* (a, b) => a.distance - b.distance  or  (a, b) => b.distance - a.distance.
compare(isMin, a, b) ==
    IF isMin THEN a.distance - b.distance ELSE b.distance - a.distance

\* A siftUp whose comparison is strict: the item climbs past its equals.
RECURSIVE siftUpPastEquals(_, _, _, _)
siftUpPastEquals(isMin, data, i, item) ==
    IF i > 0
    THEN LET parent == (i - 1) \div 2
         IN  IF compare(isMin, item, At(data, parent)) > 0
             THEN [data EXCEPT ![i + 1] = item]
             ELSE siftUpPastEquals(isMin, [data EXCEPT ![i + 1] = At(data, parent)], parent, item)
    ELSE [data EXCEPT ![i + 1] = item]

RECURSIVE siftUp(_, _, _, _)
siftUp(isMin, data, i, item) ==
    IF i > 0
    THEN LET parent == (i - 1) \div 2
         IN  IF compare(isMin, item, At(data, parent)) >= 0
             THEN [data EXCEPT ![i + 1] = item]
             ELSE siftUp(isMin, [data EXCEPT ![i + 1] = At(data, parent)], parent, item)
    ELSE [data EXCEPT ![i + 1] = item]

\* A siftDown that leaves the moved item where pop put it.
siftDownInPlace(isMin, data, i, item) == [data EXCEPT ![i + 1] = item]

RECURSIVE siftDown(_, _, _, _)
siftDown(isMin, data, i, item) ==
    LET len == Len(data)
        halfLen == len \div 2
    IN  IF i < halfLen
        THEN LET left == 2 * i + 1
                 right == left + 1
                 child == IF right < len /\ compare(isMin, At(data, right), At(data, left)) < 0
                          THEN right ELSE left
                 childVal == At(data, child)
             IN  IF compare(isMin, childVal, item) >= 0
                 THEN [data EXCEPT ![i + 1] = item]
                 ELSE siftDown(isMin, [data EXCEPT ![i + 1] = childVal], child, item)
        ELSE [data EXCEPT ![i + 1] = item]

HeapPush(isMin, data, value) == siftUp(isMin, Append(data, value), Len(data), value)

\* pop() returns data[0]; HeapPop is the array it leaves behind.
HeapPop(isMin, data) ==
    LET last == data[Len(data)]
        rest == SubSeq(data, 1, Len(data) - 1)
    IN  IF Len(rest) > 0 THEN siftDown(isMin, [rest EXCEPT ![1] = last], 0, last) ELSE rest

HeapPeek(data) == data[1]

\* ------------------------------------------------------------- distances
RECURSIVE euclideanFrom(_, _, _)
euclideanFrom(a, b, i) ==
    IF i > Len(a) THEN 0
    ELSE (a[i] - b[i]) * (a[i] - b[i]) + euclideanFrom(a, b, i + 1)

euclidean(a, b) == euclideanFrom(a, b, 1)

\* ------------------------------------------------------------- random.ts
\* A uint32 is the tuple of its 32 bits, least significant first; every
\* operation below is the one JavaScript applies after `>>> 0`.
WordBits == 32

Tab(bit(_)) ==
    << bit(1), bit(2), bit(3), bit(4), bit(5), bit(6), bit(7), bit(8),
       bit(9), bit(10), bit(11), bit(12), bit(13), bit(14), bit(15), bit(16),
       bit(17), bit(18), bit(19), bit(20), bit(21), bit(22), bit(23), bit(24),
       bit(25), bit(26), bit(27), bit(28), bit(29), bit(30), bit(31), bit(32) >>

\* The word hi * 2^16 + lo.
Word(hi, lo) ==
    LET bit(i) == IF i <= 16 THEN (lo \div (2 ^ (i - 1))) % 2 ELSE (hi \div (2 ^ (i - 17))) % 2
    IN  Tab(bit)

xor(a, b) == LET bit(i) == (a[i] + b[i]) % 2 IN Tab(bit)

or(a, b) == LET bit(i) == IF a[i] + b[i] > 0 THEN 1 ELSE 0 IN Tab(bit)

\* x >>> k and (x << k) >>> 0
shr(x, k) == LET bit(i) == IF i + k <= WordBits THEN x[i + k] ELSE 0 IN Tab(bit)

shl(x, k) == LET bit(i) == IF i - k >= 1 THEN x[i - k] ELSE 0 IN Tab(bit)

\* (a + b) >>> 0
RECURSIVE addFrom(_, _, _, _)
addFrom(a, b, i, carry) ==
    IF i > WordBits THEN << >>
    ELSE LET sum == a[i] + b[i] + carry
         IN  << sum % 2 >> \o addFrom(a, b, i + 1, sum \div 2)

add(a, b) == addFrom(a, b, 1, 0)

\* Math.imul(a, b) >>> 0: the low 32 bits of the product, column by column.
RECURSIVE imulFrom(_, _, _, _)
imulFrom(a, b, i, carry) ==
    IF i > WordBits THEN << >>
    ELSE LET sum == carry + Cardinality({j \in 1..i : a[j] = 1 /\ b[i + 1 - j] = 1})
         IN  << sum % 2 >> \o imulFrom(a, b, i + 1, sum \div 2)

imul(a, b) == imulFrom(a, b, 1, 0)

rotl(x, k) == or(shl(x, k), shr(x, WordBits - k))

\* splitmix32(): s is the counter after its increment; the value returned.
splitmix32(s) ==
    LET z1 == xor(s, shr(s, 16))
        z2 == imul(z1, Word(\h85EB, \hCA6B))
        z3 == xor(z2, shr(z2, 13))
        z4 == imul(z3, Word(\hC2B2, \hAE35))
    IN  xor(z4, shr(z4, 16))

NoSeed == << >>      \* seed === undefined

\* A createRng that never looks at the seed.
createRngUnseeded(seed, entropy) ==
    LET golden == Word(\h9E37, \h79B9)
        c0 == add(entropy, golden)
        c1 == add(c0, golden)
        c2 == add(c1, golden)
        c3 == add(c2, golden)
        s0 == splitmix32(c0)
        s1 == splitmix32(c1)
        s2 == splitmix32(c2)
        s3 == splitmix32(c3)
    IN  [ s0 |-> IF or(or(s0, s1), or(s2, s3)) = Word(0, 0) THEN Word(0, 1) ELSE s0,
          s1 |-> s1, s2 |-> s2, s3 |-> s3 ]

\* createRng(seed): the state of the generator it returns.  `entropy` is
\* the word (Math.random() * 0xFFFFFFFF) >>> 0, used when there is no seed.
createRng(seed, entropy) ==
    LET s == IF seed = NoSeed THEN entropy ELSE seed
        golden == Word(\h9E37, \h79B9)
        c0 == add(s, golden)
        c1 == add(c0, golden)
        c2 == add(c1, golden)
        c3 == add(c2, golden)
        s0 == splitmix32(c0)
        s1 == splitmix32(c1)
        s2 == splitmix32(c2)
        s3 == splitmix32(c3)
    IN  [ s0 |-> IF or(or(s0, s1), or(s2, s3)) = Word(0, 0) THEN Word(0, 1) ELSE s0,
          s1 |-> s1, s2 |-> s2, s3 |-> s3 ]

\* One call of the generator: the value returned is value / 0x80000000,
\* with value = result >>> 1, and the state is the one it leaves.
xoshiro128ss(rng) ==
    LET result == imul(rotl(imul(rng.s1, Word(0, 5)), 7), Word(0, 9))
        t == shl(rng.s1, 9)
        s2 == xor(rng.s2, rng.s0)
        s3 == xor(rng.s3, rng.s1)
        s1 == xor(rng.s1, s2)
        s0 == xor(rng.s0, s3)
    IN  [ value |-> shr(result, 1),
          rng |-> [ s0 |-> s0, s1 |-> s1, s2 |-> xor(s2, t), s3 |-> rotl(s3, 11) ] ]

\* The integer a word of at most 31 bits stands for.
RECURSIVE ToInt(_, _)
ToInt(x, i) == IF i > WordBits - 1 THEN 0 ELSE x[i] + 2 * ToInt(x, i + 1)

\* ------------------------------------------------------------- HNSWIndex
maxNOf(config, layer) == IF layer = 0 THEN config.Mmax0 ELSE config.M

SentinelRow(n) == [j \in 1..n |-> SENTINEL]

\* levels and the neighborCounts of every layer are Uint8Array: a value
\* stored into them is kept modulo 256.
Uint8(n) == n % 256

NewIndex(config) ==
    [ config |-> config,
      capacity |-> INITIAL_CAPACITY,
      count |-> 0,
      deletedCount |-> 0,
      entryPointId |-> -1,
      maxLevel |-> -1,
      vectors |-> << >>,
      levels |-> << >>,
      adjacency |-> << << >> >>,
      neighborCounts |-> << << >> >>,
      deletedSet |-> {},
      internalToExternal |-> << >>,
      externalToInternal |-> {} ]

IndexSize(idx) == idx.count - idx.deletedCount

distanceToQuery(idx, query, b) == euclidean(query, At(idx.vectors, b))

distance(idx, a, b) == euclidean(At(idx.vectors, a), At(idx.vectors, b))

\* adj.subarray(offset, offset + count): the first `count` entries of the row.
getNeighbors(idx, nodeId, layer) ==
    LET row == At(idx.adjacency[layer + 1], nodeId)
    IN  [j \in 1..At(idx.neighborCounts[layer + 1], nodeId) |-> row[j]]

\* ensureLayer: layers are appended until `layer` exists; a new layer holds
\* SENTINEL rows and zero counts for every slot.
ensureLayer(idx, layer) ==
    LET have == Len(idx.adjacency)
    IN  IF have <= layer
        THEN [idx EXCEPT
                 !.adjacency = @ \o [n \in 1..(layer + 1 - have) |->
                                        [i \in 1..idx.count |->
                                            SentinelRow(maxNOf(idx.config, have + n - 1))]],
                 !.neighborCounts = @ \o [n \in 1..(layer + 1 - have) |->
                                             [i \in 1..idx.count |-> 0]]]
        ELSE idx

grow(idx) ==
    [idx EXCEPT !.capacity = Max2(idx.capacity + 1, (3 * idx.capacity + 1) \div 2)]

\* shrinkToFit(): the arrays are reallocated with max(1, count) slots and the
\* first count slots copied; nothing happens when capacity equals count.
shrinkToFit(idx) ==
    IF idx.capacity = idx.count THEN idx
    ELSE [idx EXCEPT !.capacity = Max2(1, idx.count)]

\* ----------------------------------------------------------- typed arrays
\* The arrays behind an index, slot by slot up to `capacity`: what grow and
\* shrinkToFit reallocate.  A typed array is created full of zeros.
\* Math.ceil(n / m)
CeilDiv(n, m) == (n + m - 1) \div m

Zeros(n) == [p \in 1..n |-> 0]

Filled(n, value) == [p \in 1..n |-> value]

\* target.set(source): the elements of source are copied to the front of
\* target; a source longer than the target is a RangeError.
TypedSet(target, source) ==
    IF Len(source) > Len(target) THEN "RangeError"
    ELSE [p \in 1..Len(target) |-> IF p <= Len(source) THEN source[p] ELSE target[p]]

\* array.subarray(0, n)
Subarray(array, n) == SubSeq(array, 1, Min2(n, Len(array)))

\* The rows of the first slots laid out one after the other, `width`
\* elements each, in an array of n * width elements.
Flat(rows, width, n, fill) ==
    [p \in 1..(n * width) |->
        LET i == (p - 1) \div width
            j == (p - 1) % width
        IN  IF i < Len(rows) THEN rows[i + 1][j + 1] ELSE fill]

\* The arrays of an index: the slots from count on are as they were
\* allocated.  The Bitset holds one 32-bit word for every 32 slots.
ToArrays(idx) ==
    [ capacity |-> idx.capacity,
      vectors |-> Flat(idx.vectors, idx.config.dimensions, idx.capacity, 0),
      levels |-> [p \in 1..idx.capacity |-> IF p <= Len(idx.levels) THEN idx.levels[p] ELSE 0],
      adjacency |-> [l \in DOMAIN idx.adjacency |->
                        Flat(idx.adjacency[l], maxNOf(idx.config, l - 1), idx.capacity, SENTINEL)],
      neighborCounts |-> [l \in DOMAIN idx.neighborCounts |->
                             [p \in 1..idx.capacity |->
                                 IF p <= Len(idx.neighborCounts[l])
                                 THEN idx.neighborCounts[l][p] ELSE 0]],
      deletedWords |-> CeilDiv(idx.capacity, 32),
      deletedBits |-> idx.deletedSet ]

\* The first `count` slots of the arrays, read as the code reads them.
FromArrays(arrays, idx) ==
    LET dim == idx.config.dimensions
    IN  [idx EXCEPT
            !.capacity = arrays.capacity,
            !.vectors = [i \in 1..idx.count |-> [d \in 1..dim |-> arrays.vectors[(i - 1) * dim + d]]],
            !.levels = [i \in 1..idx.count |-> arrays.levels[i]],
            !.adjacency = [l \in DOMAIN arrays.adjacency |->
                              LET maxN == maxNOf(idx.config, l - 1)
                              IN  [i \in 1..idx.count |->
                                      [j \in 1..maxN |-> arrays.adjacency[l][(i - 1) * maxN + j]]]],
            !.neighborCounts = [l \in DOMAIN arrays.neighborCounts |->
                                   [i \in 1..idx.count |-> arrays.neighborCounts[l][i]]],
            !.deletedSet = {i \in arrays.deletedBits : i < 32 * arrays.deletedWords}]

\* A grow that allocates the new arrays and copies nothing into the
\* adjacency arrays.
growArraysEmptied(arrays, config) ==
    LET newCapacity == Max2(arrays.capacity + 1, CeilDiv(3 * arrays.capacity, 2))
    IN  [ capacity |-> newCapacity,
          vectors |-> TypedSet(Zeros(newCapacity * config.dimensions), arrays.vectors),
          levels |-> TypedSet(Zeros(newCapacity), arrays.levels),
          adjacency |-> [l \in DOMAIN arrays.adjacency |->
                            Filled(newCapacity * maxNOf(config, l - 1), SENTINEL)],
          neighborCounts |-> [l \in DOMAIN arrays.neighborCounts |->
                                 TypedSet(Zeros(newCapacity), arrays.neighborCounts[l])],
          deletedWords |-> Max2(arrays.deletedWords, CeilDiv(newCapacity, 32)),
          deletedBits |-> arrays.deletedBits ]

\* grow(), array by array.
growArrays(arrays, config) ==
    LET newCapacity == Max2(arrays.capacity + 1, CeilDiv(3 * arrays.capacity, 2))
    IN  [ capacity |-> newCapacity,
          vectors |-> TypedSet(Zeros(newCapacity * config.dimensions), arrays.vectors),
          levels |-> TypedSet(Zeros(newCapacity), arrays.levels),
          adjacency |-> [l \in DOMAIN arrays.adjacency |->
                            TypedSet(Filled(newCapacity * maxNOf(config, l - 1), SENTINEL),
                                     arrays.adjacency[l])],
          neighborCounts |-> [l \in DOMAIN arrays.neighborCounts |->
                                 TypedSet(Zeros(newCapacity), arrays.neighborCounts[l])],
          deletedWords |-> Max2(arrays.deletedWords, CeilDiv(newCapacity, 32)),
          deletedBits |-> arrays.deletedBits ]

\* A shrinkToFit that reallocates whenever it is called.
shrinkArraysAlways(arrays, config, count) ==
    LET newCapacity == Max2(1, count)
    IN  [arrays EXCEPT
            !.capacity = newCapacity,
            !.vectors = TypedSet(Zeros(newCapacity * config.dimensions),
                                 Subarray(@, count * config.dimensions)),
            !.levels = TypedSet(Zeros(newCapacity), Subarray(@, count)),
            !.adjacency = [l \in DOMAIN @ |->
                              TypedSet(Filled(newCapacity * maxNOf(config, l - 1), SENTINEL),
                                       Subarray(@[l], count * maxNOf(config, l - 1)))],
            !.neighborCounts = [l \in DOMAIN @ |->
                                   TypedSet(Zeros(newCapacity), Subarray(@[l], count))]]

\* shrinkToFit(), array by array; the Bitsets are left as they are.
shrinkArrays(arrays, config, count) ==
    IF arrays.capacity = count THEN arrays
    ELSE LET newCapacity == Max2(1, count)
         IN  [arrays EXCEPT
                 !.capacity = newCapacity,
                 !.vectors = TypedSet(Zeros(newCapacity * config.dimensions),
                                      Subarray(@, count * config.dimensions)),
                 !.levels = TypedSet(Zeros(newCapacity), Subarray(@, count)),
                 !.adjacency = [l \in DOMAIN @ |->
                                   TypedSet(Filled(newCapacity * maxNOf(config, l - 1), SENTINEL),
                                            Subarray(@[l], count * maxNOf(config, l - 1)))],
                 !.neighborCounts = [l \in DOMAIN @ |->
                                        TypedSet(Zeros(newCapacity), Subarray(@[l], count))]]

setNeighbors(idx, nodeId, layer, neighbors) ==
    LET maxN == maxNOf(idx.config, layer)
        cnt == Min2(Len(neighbors), maxN)
        row == [j \in 1..maxN |-> IF j <= cnt THEN neighbors[j].id ELSE SENTINEL]
    IN  [idx EXCEPT !.adjacency[layer + 1][nodeId + 1] = row,
                    !.neighborCounts[layer + 1][nodeId + 1] = Uint8(cnt)]

\* [...candidates].sort(MIN_CMP): Array.prototype.sort is stable.
RECURSIVE InsertSorted(_, _)
InsertSorted(sorted, c) ==
    IF sorted = << >> THEN << c >>
    ELSE IF sorted[Len(sorted)].distance <= c.distance THEN Append(sorted, c)
    ELSE Append(InsertSorted(SubSeq(sorted, 1, Len(sorted) - 1), c), sorted[Len(sorted)])

RECURSIVE SortByDistance(_)
SortByDistance(cands) ==
    IF cands = << >> THEN << >>
    ELSE InsertSorted(SortByDistance(SubSeq(cands, 1, Len(cands) - 1)), cands[Len(cands)])

selectNeighborsSimple(idx, candidates, maxNeighbors) ==
    LET sorted == SortByDistance(candidates)
    IN  SubSeq(sorted, 1, Min2(Len(sorted), maxNeighbors))

\* The main pass of the heuristic: st = [selected, discarded].
RECURSIVE HeuristicPass(_, _, _, _, _)
HeuristicPass(idx, sorted, i, maxNeighbors, st) ==
    IF i > Len(sorted) \/ Len(st.selected) >= maxNeighbors THEN st
    ELSE LET c == sorted[i]
             keep == \A j \in 1..Len(st.selected) :
                         ~(distance(idx, c.id, st.selected[j].id) < c.distance)
         IN  HeuristicPass(idx, sorted, i + 1, maxNeighbors,
                 IF keep THEN [st EXCEPT !.selected = Append(@, c)]
                         ELSE [st EXCEPT !.discarded = Append(@, c)])

RECURSIVE FillPruned(_, _, _, _)
FillPruned(selected, discarded, i, maxNeighbors) ==
    IF i > Len(discarded) \/ Len(selected) >= maxNeighbors THEN selected
    ELSE FillPruned(
             IF \E j \in 1..Len(selected) : selected[j].id = discarded[i].id
             THEN selected ELSE Append(selected, discarded[i]),
             discarded, i + 1, maxNeighbors)

\* A heuristic selection that takes the nearest candidates without testing
\* them against those selected before.
selectNeighborsHeuristicUntested(idx, candidates, maxNeighbors) ==
    IF Len(candidates) <= maxNeighbors THEN candidates
    ELSE selectNeighborsSimple(idx, candidates, maxNeighbors)

selectNeighborsHeuristic(idx, candidates, maxNeighbors) ==
    IF Len(candidates) <= maxNeighbors THEN candidates
    ELSE LET st == HeuristicPass(idx, SortByDistance(candidates), 1, maxNeighbors,
                                 [selected |-> << >>, discarded |-> << >>])
         IN  IF idx.config.keepPrunedConnections /\ Len(st.selected) < maxNeighbors
             THEN FillPruned(st.selected, st.discarded, 1, maxNeighbors)
             ELSE st.selected

selectNeighbors(idx, candidates, maxNeighbors) ==
    IF idx.config.useHeuristic
    THEN selectNeighborsHeuristic(idx, candidates, maxNeighbors)
    ELSE selectNeighborsSimple(idx, candidates, maxNeighbors)

\* An addConnection that adds no back-edge.
addConnectionSkipped(idx, nodeId, neighborId, layer) == idx

\* An addConnection that appends to a full row instead of selecting again.
addConnectionUnbounded(idx, nodeId, neighborId, layer) ==
    LET cnt == At(idx.neighborCounts[layer + 1], nodeId)
        row == At(idx.adjacency[layer + 1], nodeId)
    IN  IF \E i \in 1..cnt : row[i] = neighborId THEN idx
        ELSE [idx EXCEPT !.adjacency[layer + 1][nodeId + 1] =
                             [j \in DOMAIN row |-> IF j = cnt + 1 THEN neighborId ELSE row[j]],
                         !.neighborCounts[layer + 1][nodeId + 1] = cnt + 1]

addConnection(idx, nodeId, neighborId, layer) ==
    LET maxN == maxNOf(idx.config, layer)
        cnt == At(idx.neighborCounts[layer + 1], nodeId)
        row == At(idx.adjacency[layer + 1], nodeId)
    IN  IF \E i \in 1..cnt : row[i] = neighborId THEN idx
        ELSE IF cnt < maxN
        THEN [idx EXCEPT !.adjacency[layer + 1][nodeId + 1][cnt + 1] = neighborId,
                         !.neighborCounts[layer + 1][nodeId + 1] = Uint8(cnt + 1)]
        ELSE LET candidates ==
                     [i \in 1..(cnt + 1) |->
                         IF i <= cnt
                         THEN [id |-> row[i], distance |-> distance(idx, nodeId, row[i])]
                         ELSE [id |-> neighborId, distance |-> distance(idx, nodeId, neighborId)]]
             IN  setNeighbors(idx, nodeId, layer, selectNeighbors(idx, candidates, maxN))

\* The greedy descent of insert and search: one pass over the neighbours of
\* the node the pass started from; cur = [obj, dist, changed].
RECURSIVE GreedyScan(_, _, _, _, _)
GreedyScan(idx, query, neighbors, i, cur) ==
    IF i > Len(neighbors) \/ neighbors[i] = SENTINEL THEN cur
    ELSE LET d == distanceToQuery(idx, query, neighbors[i])
         IN  GreedyScan(idx, query, neighbors, i + 1,
                 IF d < cur.dist
                 THEN [obj |-> neighbors[i], dist |-> d, changed |-> TRUE]
                 ELSE cur)

RECURSIVE GreedyLayer(_, _, _, _)
GreedyLayer(idx, query, layer, cur) ==
    LET r == GreedyScan(idx, query, getNeighbors(idx, cur.obj, layer), 1,
                        [cur EXCEPT !.changed = FALSE])
    IN  IF r.changed THEN GreedyLayer(idx, query, layer, r) ELSE r

\* for (l = from; l > downTo; l--): the layers from..(mid + 1), then the
\* layers mid..(downTo + 1).  The range is halved, and the upper half is
\* worked out before the lower is entered (obj is always a node, so the test
\* decides nothing), so that a descent through hundreds of layers does not
\* nest as deep as the index is tall.
RECURSIVE GreedyDescent(_, _, _, _, _)
GreedyDescent(idx, query, from, downTo, cur) ==
    IF from <= downTo THEN cur
    ELSE IF from = downTo + 1 THEN GreedyLayer(idx, query, from, cur)
    ELSE LET mid == (from + downTo) \div 2
             upper == GreedyDescent(idx, query, from, mid, cur)
         IN  IF upper.obj = SENTINEL THEN upper
             ELSE GreedyDescent(idx, query, mid, downTo, upper)

\* The beam search of one layer: st = [candidates, results, visited].
\* One neighbor of the node that was popped.
BeamVisit(idx, query, ef, neighborId, st) ==
    IF neighborId \in st.visited THEN st
    ELSE LET d == distanceToQuery(idx, query, neighborId)
             worstResult == HeapPeek(st.results)
             c == [id |-> neighborId, distance |-> d]
             pushed == HeapPush(FALSE, st.results, c)
         IN  IF d < worstResult.distance \/ Len(st.results) < ef
             THEN [candidates |-> HeapPush(TRUE, st.candidates, c),
                   results |-> IF Len(pushed) > ef THEN HeapPop(FALSE, pushed) ELSE pushed,
                   visited |-> st.visited \cup {neighborId}]
             ELSE [st EXCEPT !.visited = @ \cup {neighborId}]

\* The neighbors lo..hi in order.  The range is halved, and the first half
\* is worked out before the second is entered (visited always holds the
\* entry node, so the test decides nothing), so that a row of hundreds of
\* neighbors is walked without nesting as deep as the row is long.
RECURSIVE BeamRange(_, _, _, _, _, _, _)
BeamRange(idx, query, ef, neighbors, lo, hi, st) ==
    IF lo > hi THEN st
    ELSE IF lo = hi THEN BeamVisit(idx, query, ef, neighbors[lo], st)
    ELSE LET mid == (lo + hi) \div 2
             half == BeamRange(idx, query, ef, neighbors, lo, mid, st)
         IN  IF half.visited = {} THEN half
             ELSE BeamRange(idx, query, ef, neighbors, mid + 1, hi, half)

\* for (i = 0; i < neighbors.length; i++), left at the first SENTINEL
BeamNeighbors(idx, query, ef, neighbors, i, st) ==
    LET stops == {j \in i..Len(neighbors) : neighbors[j] = SENTINEL}
        last == IF stops = {} THEN Len(neighbors)
                ELSE (CHOOSE j \in stops : \A n \in stops : j <= n) - 1
    IN  BeamRange(idx, query, ef, neighbors, i, last, st)

RECURSIVE BeamLoop(_, _, _, _, _)
BeamLoop(idx, query, ef, layer, st) ==
    IF Len(st.candidates) = 0 THEN st
    ELSE LET nearest == HeapPeek(st.candidates)
             popped == [st EXCEPT !.candidates = HeapPop(TRUE, st.candidates)]
             farthest == HeapPeek(st.results)
         IN  IF nearest.distance > farthest.distance THEN popped
             ELSE BeamLoop(idx, query, ef, layer,
                      BeamNeighbors(idx, query, ef, getNeighbors(idx, nearest.id, layer), 1, popped))

\* sorted[i] = results.pop() for i = len - 1 down to 0
RECURSIVE DrainSorted(_)
DrainSorted(results) ==
    IF Len(results) = 0 THEN << >>
    ELSE Append(DrainSorted(HeapPop(FALSE, results)), HeapPeek(results))

searchLayerByQuery(idx, query, entryId, ef, layer) ==
    LET e == [id |-> entryId, distance |-> distanceToQuery(idx, query, entryId)]
        st == BeamLoop(idx, query, ef, layer,
                  [candidates |-> HeapPush(TRUE, << >>, e),
                   results |-> HeapPush(FALSE, << >>, e),
                   visited |-> {entryId}])
    IN  DrainSorted(st.results)

searchLayer(idx, queryId, entryId, ef, layer) ==
    searchLayerByQuery(idx, At(idx.vectors, queryId), entryId, ef, layer)

\* -------------------------------------------------- HNSWIndex: operations
hasExternal(idx, id) == \E p \in idx.externalToInternal : p[1] = id

internalOf(idx, id) == (CHOOSE p \in idx.externalToInternal : p[1] = id)[2]

\* insert throws on a duplicate external id or a vector of the wrong length.
insertThrows(idx, id, vector) ==
    hasExternal(idx, id) \/ Len(vector) # idx.config.dimensions

RECURSIVE AddBackEdges(_, _, _, _, _)
AddBackEdges(idx, selected, i, internalId, layer) ==
    IF i > Len(selected) THEN idx
    ELSE AddBackEdges(addConnection(idx, selected[i].id, internalId, layer),
                      selected, i + 1, internalId, layer)

\* One round of phase 2 of insert: st = [idx, currObj].
LinkLayer(st, internalId, l) ==
    LET idx == st.idx
        maxNeighbors == maxNOf(idx.config, l)
        candidates == searchLayer(idx, internalId, st.currObj, idx.config.efConstruction, l)
        selected == selectNeighbors(idx, candidates, maxNeighbors)
        linked == AddBackEdges(setNeighbors(idx, internalId, l, selected),
                               selected, 1, internalId, l)
    IN  [idx |-> linked,
         currObj |-> IF Len(candidates) > 0 THEN candidates[1].id ELSE st.currObj]

\* The rounds for the layers from..mid, then for the layers
\* (mid - 1)..downTo.  The range is halved, and the upper half is worked out
\* before the lower is entered (currObj is always a node, so the test decides
\* nothing), so that linking a node on hundreds of layers does not nest as
\* deep as the index is tall.
RECURSIVE LinkRange(_, _, _, _)
LinkRange(st, internalId, from, downTo) ==
    IF from < downTo THEN st
    ELSE IF from = downTo THEN LinkLayer(st, internalId, from)
    ELSE LET mid == (from + downTo + 1) \div 2
             upper == LinkRange(st, internalId, from, mid)
         IN  IF upper.currObj = SENTINEL THEN upper
             ELSE LinkRange(upper, internalId, mid - 1, downTo)

\* Phase 2 of insert: for (l = topInsertLevel; l >= 0; l--)
LinkLayers(idx, internalId, l, currObj) ==
    LinkRange([idx |-> idx, currObj |-> currObj], internalId, l, 0).idx

\* insert(id, vector) when it does not throw; `level` is the value that
\* randomLevel() draws.
insert(idx, id, vector, level) ==
    LET grown == IF idx.count >= idx.capacity THEN grow(idx) ELSE idx
        internalId == grown.count
        stored == [grown EXCEPT
                      !.count = @ + 1,
                      !.vectors = Append(@, vector),
                      !.levels = Append(@, Uint8(level)),
                      !.internalToExternal = Append(@, id),
                      !.externalToInternal = @ \cup {<<id, internalId>>},
                      !.adjacency = [l \in DOMAIN @ |->
                                        Append(@[l], SentinelRow(maxNOf(idx.config, l - 1)))],
                      !.neighborCounts = [l \in DOMAIN @ |-> Append(@[l], 0)]]
        layered == ensureLayer(stored, level)
    IN  IF layered.entryPointId = -1
        THEN [layered EXCEPT !.entryPointId = internalId, !.maxLevel = level]
        ELSE LET start == [obj |-> layered.entryPointId,
                           dist |-> distance(layered, internalId, layered.entryPointId),
                           changed |-> FALSE]
                 cur == GreedyDescent(layered, vector, layered.maxLevel, level, start)
                 linked == LinkLayers(layered, internalId,
                                      Min2(level, layered.maxLevel), cur.obj)
             IN  IF level > layered.maxLevel
                 THEN [linked EXCEPT !.entryPointId = internalId, !.maxLevel = level]
                 ELSE linked

\* An insert that allocates the slot and the id mapping before it checks the
\* vector length.
insertAllocatesFirst(idx, id, vector, level) ==
    IF hasExternal(idx, id) THEN [idx |-> idx, threw |-> TRUE]
    ELSE IF Len(vector) # idx.config.dimensions
    THEN [ idx |-> [idx EXCEPT !.count = @ + 1,
                               !.internalToExternal = Append(@, id),
                               !.externalToInternal = @ \cup {<<id, idx.count>>}],
           threw |-> TRUE ]
    ELSE [idx |-> insert(idx, id, vector, level), threw |-> FALSE]

\* insert(id, vector) as called: both checks come before the first write.
insertCall(idx, id, vector, level) ==
    IF hasExternal(idx, id) THEN [idx |-> idx, threw |-> TRUE]
    ELSE IF Len(vector) # idx.config.dimensions THEN [idx |-> idx, threw |-> TRUE]
    ELSE [idx |-> insert(idx, id, vector, level), threw |-> FALSE]

\* An emit loop that skips nothing and does not stop at k.
CollectEverything(idx, candidates, i, k, filter, results) ==
    [j \in 1..Len(candidates) |->
        [id |-> At(idx.internalToExternal, candidates[j].id), distance |-> candidates[j].distance]]

\* The emit loop of search: skip tombstoned slots and ids the filter
\* rejects, stop at k results.  `filter` is the set of ids the filter accepts.
RECURSIVE CollectResults(_, _, _, _, _, _)
CollectResults(idx, candidates, i, k, filter, results) ==
    IF i > Len(candidates) THEN results
    ELSE LET c == candidates[i]
             extId == At(idx.internalToExternal, c.id)
         IN  IF c.id \in idx.deletedSet \/ extId \notin filter
             THEN CollectResults(idx, candidates, i + 1, k, filter, results)
             ELSE LET r == Append(results, [id |-> extId, distance |-> c.distance])
                  IN  IF Len(r) = k THEN r
                      ELSE CollectResults(idx, candidates, i + 1, k, filter, r)

\* A search whose beam width is efSearch alone, not max(efSearch, k).
searchNarrowBeam(idx, query, k, efSearch, filter) ==
    IF idx.entryPointId = -1 THEN << >>
    ELSE LET ef == IF efSearch = 0 THEN idx.config.efSearch ELSE efSearch
             start == [obj |-> idx.entryPointId,
                       dist |-> distanceToQuery(idx, query, idx.entryPointId),
                       changed |-> FALSE]
             cur == GreedyDescent(idx, query, idx.maxLevel, 0, start)
             candidates == searchLayerByQuery(idx, query, cur.obj, ef, 0)
         IN  CollectResults(idx, candidates, 1, k, filter, << >>)

\* search(query, k, efSearch, filter); efSearch = 0 stands for `undefined`.
search(idx, query, k, efSearch, filter) ==
    IF idx.entryPointId = -1 THEN << >>
    ELSE LET ef == Max2(IF efSearch = 0 THEN idx.config.efSearch ELSE efSearch, k)
             start == [obj |-> idx.entryPointId,
                       dist |-> distanceToQuery(idx, query, idx.entryPointId),
                       changed |-> FALSE]
             cur == GreedyDescent(idx, query, idx.maxLevel, 0, start)
             candidates == searchLayerByQuery(idx, query, cur.obj, ef, 0)
         IN  CollectResults(idx, candidates, 1, k, filter, << >>)

\* delete(id): the value returned, and the index afterwards.
deleteReturns(idx, id) ==
    hasExternal(idx, id) /\ internalOf(idx, id) \notin idx.deletedSet

\* A delete that does not look at the tombstone bit before it sets it.
deleteUnchecked(idx, id) ==
    IF hasExternal(idx, id)
    THEN [idx EXCEPT !.deletedSet = @ \cup {internalOf(idx, id)},
                     !.deletedCount = @ + 1]
    ELSE idx

\* A delete that gives up the entry point when it tombstones it.
deleteResetsEntryPoint(idx, id) ==
    IF deleteReturns(idx, id)
    THEN [idx EXCEPT !.deletedSet = @ \cup {internalOf(idx, id)},
                     !.deletedCount = @ + 1,
                     !.entryPointId = IF @ = internalOf(idx, id) THEN -1 ELSE @]
    ELSE idx

delete(idx, id) ==
    IF deleteReturns(idx, id)
    THEN [idx EXCEPT !.deletedSet = @ \cup {internalOf(idx, id)},
                     !.deletedCount = @ + 1]
    ELSE idx

getVector(idx, id) ==
    IF hasExternal(idx, id) /\ internalOf(idx, id) \notin idx.deletedSet
    THEN At(idx.vectors, internalOf(idx, id))
    ELSE << >>

LiveIds(idx) ==
    {At(idx.internalToExternal, i) : i \in (0..(idx.count - 1)) \ idx.deletedSet}

\* compact(): a new index over the same config; `draws` is the sequence of
\* levels its generator hands out.
RECURSIVE CompactFrom(_, _, _, _, _)
CompactFrom(idx, i, newIndex, draws, n) ==
    IF i >= idx.count THEN newIndex
    ELSE IF i \in idx.deletedSet THEN CompactFrom(idx, i + 1, newIndex, draws, n)
    ELSE CompactFrom(idx, i + 1,
             insert(newIndex, At(idx.internalToExternal, i), At(idx.vectors, i), draws[n]),
             draws, n + 1)

\* A compact that clears the tombstones and keeps every slot.
compactClearsTombstones(idx, draws) == [idx EXCEPT !.deletedSet = {}, !.deletedCount = 0]

compact(idx, draws) == CompactFrom(idx, 0, NewIndex(idx.config), draws, 1)

\* ------------------------------------------------------------------ codec
\* The byte image, as the fields encodeShard writes: the header, the id
\* table, and the first `count` slots of vectors, levels and each layer.
encodeShard(idx) ==
    [ dim |-> idx.config.dimensions,
      count |-> idx.count,
      maxLevel |-> idx.maxLevel,
      entryPointId |-> idx.entryPointId,
      M |-> idx.config.M,
      Mmax0 |-> idx.config.Mmax0,
      useHeuristic |-> idx.config.useHeuristic,
      keepPrunedConnections |-> idx.config.keepPrunedConnections,
      efConstruction |-> idx.config.efConstruction,
      efSearch |-> idx.config.efSearch,
      ids |-> SubSeq(idx.internalToExternal, 1, idx.count),
      vectors |-> SubSeq(idx.vectors, 1, idx.count),
      levels |-> SubSeq(idx.levels, 1, idx.count),
      layers |-> [l \in 1..Len(idx.adjacency) |->
                     [ nodeCount |-> idx.count,
                       maxN |-> maxNOf(idx.config, l - 1),
                       neighborCounts |-> SubSeq(idx.neighborCounts[l], 1, idx.count),
                       adjacency |-> SubSeq(idx.adjacency[l], 1, idx.count) ]] ]

\* HNSWIndex.fromInternalState: the external-to-internal map is rebuilt
\* from the id table, the tombstone bitset is new and empty.
fromInternalState(config, state) ==
    [ config |-> config,
      capacity |-> state.capacity,
      count |-> state.count,
      deletedCount |-> 0,
      entryPointId |-> state.entryPointId,
      maxLevel |-> state.maxLevel,
      vectors |-> state.vectors,
      levels |-> state.levels,
      adjacency |-> state.adjacency,
      neighborCounts |-> state.neighborCounts,
      deletedSet |-> {},
      internalToExternal |-> state.internalToExternal,
      externalToInternal |-> {<<state.internalToExternal[i], i - 1>> : i \in 1..state.count} ]

decodeShard(data) ==
    fromInternalState(
        [ dimensions |-> data.dim,
          M |-> data.M,
          Mmax0 |-> data.Mmax0,
          efConstruction |-> data.efConstruction,
          efSearch |-> data.efSearch,
          useHeuristic |-> data.useHeuristic,
          keepPrunedConnections |-> data.keepPrunedConnections ],
        [ vectors |-> data.vectors,
          levels |-> data.levels,
          adjacency |-> [l \in 1..Len(data.layers) |-> data.layers[l].adjacency],
          neighborCounts |-> [l \in 1..Len(data.layers) |-> data.layers[l].neighborCounts],
          internalToExternal |-> data.ids,
          count |-> data.count,
          capacity |-> data.count,
          entryPointId |-> data.entryPointId,
          maxLevel |-> data.maxLevel ])

\* ------------------------------------------ HNSWIndex with its generator
\* Math.floor(-Math.log(u) * mL), where u = value / 0x80000000 and mL is the
\* default 1 / Math.log(M).  -Math.log(0) and 1 / Math.log(1) are Infinity,
\* and so is their product with any positive number.  Otherwise the level
\* is the largest L with M^L * value <= 2^31, found by dividing
\* floor(2^31 / value) by M; the rounding of the floating-point product,
\* which matters only where M^L * value = 2^31 exactly, is left out.
Infinity == -2

\* floor(2^31 / n) for 2 <= n < 2^31
Two31Over(n) ==
    LET half == 2 ^ 30
    IN  IF n > half THEN 1
        ELSE IF n = half THEN 2
        ELSE 2 * (half \div n) + (2 * (half % n)) \div n

RECURSIVE FloorLog(_, _)
FloorLog(q, m) == IF q >= m THEN 1 + FloorLog(q \div m, m) ELSE 0

randomLevel(config, value) ==
    LET n == ToInt(value, 1)
    IN  IF n = 0 \/ config.M = 1 THEN Infinity
        ELSE IF n = 1 THEN 1 + FloorLog(Two31Over(config.M), config.M)
        ELSE FloorLog(Two31Over(n), config.M)

\* new HNSWIndex(config): the index and the state of its generator.
NewSeeded(config, seed, entropy) ==
    [ index |-> NewIndex(config), rng |-> createRng(seed, entropy) ]

\* insert(id, vector) with the level drawn from the index's own generator;
\* a call that throws draws nothing.
seededInsert(si, id, vector) ==
    IF insertThrows(si.index, id, vector) THEN si
    ELSE LET d == xoshiro128ss(si.rng)
         IN  [ index |-> insert(si.index, id, vector, randomLevel(si.index.config, d.value)),
               rng |-> d.rng ]

seededDelete(si, id) == [si EXCEPT !.index = delete(@, id)]

\* ----------------------------------------------------------- ShardManager
VARIABLES
    hnswConfig,         \* the HNSWConfig every new shard is built with
    shardConfig,        \* [maxVectorsPerShard, maxLoadedShards]
    hasStorage,         \* storage !== null
    store,              \* the storage backend: shard key -> image
    loadedShards,       \* shard key -> [index, dirty, lastAccess]
    idToShard,          \* external id -> shard key
    shardKeys,          \* ordered list of shard keys
    currentShardKey,
    currentShardCount,
    totalCount,
    accessCounter,
    lastOp,             \* the last operation: its name, input, outcome
    evictLog,           \* the evictions of the last operation, in order
    touchLog,           \* the ticks handed out by the last operation, in order
    prevMaxTick,        \* the largest tick this manager handed out before it
    deletedIds,         \* ids whose delete returned true, not inserted since
    closeSnap,          \* size and live ids of the manager at its last close
    budget,             \* how many operations the run may still make
    usedIds,            \* the ids some insert was called with
    okInserts,          \* successful inserts of this manager
    pristine,           \* the manager is fresh: never reopened, no failed insert, no compact
    writeLog,           \* the keys the last operation wrote to the store
    inFlight,           \* writes a failed flush started that the store has not yet taken
    seed,               \* config.seed of the two indexes below, or NoSeed
    left,               \* an index built on its own: [index, rng]
    right,              \* a second index built from the same seed and calls
    drawn,              \* the value the generator of `left` returned last
    fanOut,             \* the search in flight: its tasks, one per shard key
    selection,          \* the last call of selectNeighborsHeuristic on `left`
    running             \* the call that has started and not yet returned

vars == << hnswConfig, shardConfig, hasStorage, store, loadedShards, idToShard,
           shardKeys, currentShardKey, currentShardCount, totalCount,
           accessCounter, lastOp, evictLog, touchLog, prevMaxTick, deletedIds,
           closeSnap, budget, usedIds, okInserts, pristine, writeLog, inFlight,
           seed, left, right, drawn, fanOut, selection,
           running >>

\* The key of shard number n is "shard-" followed by n padded to six
\* digits; for n < 10^6 the keys sort as their numbers do, and a key is
\* kept as its number.
ShardKey(n) == n

EmptyMap == [x \in {} |-> 0]
MapSet(f, k, v) == [x \in DOMAIN f \cup {k} |-> IF x = k THEN v ELSE f[x]]
MapDel(f, k) == [x \in DOMAIN f \ {k} |-> f[x]]

RECURSIVE SortedSeq(_)
SortedSeq(S) ==
    IF S = {} THEN << >>
    ELSE LET m == CHOOSE x \in S : \A y \in S : x <= y
         IN  << m >> \o SortedSeq(S \ {m})

\* The manager's fields and the store, threaded through the helpers.
World ==
    [ loadedShards |-> loadedShards,
      idToShard |-> idToShard,
      shardKeys |-> shardKeys,
      currentShardKey |-> currentShardKey,
      currentShardCount |-> currentShardCount,
      totalCount |-> totalCount,
      accessCounter |-> accessCounter,
      store |-> store,
      evictLog |-> << >>,
      touchLog |-> << >>,
      writeLog |-> << >> ]

\* new ShardManager(hnswConfig, shardConfig, storage) over the same store
FreshOver(st) ==
    [ loadedShards |-> EmptyMap,
      idToShard |-> EmptyMap,
      shardKeys |-> << >>,
      currentShardKey |-> NoKey,
      currentShardCount |-> 0,
      totalCount |-> 0,
      accessCounter |-> 0,
      store |-> st,
      evictLog |-> << >>,
      touchLog |-> << >>,
      writeLog |-> << >> ]

FreshWorld == FreshOver(store)

\* lastAccess: this.accessCounter++
NextTick(w) == w.accessCounter

Ticked(w, key) ==
    [w EXCEPT !.accessCounter = @ + 1,
              !.touchLog = Append(@, [key |-> key, tick |-> NextTick(w)])]

\* A victim choice that takes the greatest lastAccess instead of the least.
mruKeyOf(w) ==
    LET cands == DOMAIN w.loadedShards \ {w.currentShardKey}
    IN  CHOOSE k \in cands :
            \A j \in cands : w.loadedShards[k].lastAccess >= w.loadedShards[j].lastAccess

\* The victim evictIfNeeded picks: the resident shard of least lastAccess
\* that is not the current write shard.
lruKeyOf(w) ==
    LET cands == DOMAIN w.loadedShards \ {w.currentShardKey}
    IN  CHOOSE k \in cands :
            \A j \in cands : w.loadedShards[k].lastAccess <= w.loadedShards[j].lastAccess

\* One round of the eviction loop: persist the victim if dirty, then drop it.
evictOne(w, lruKey) ==
    LET shard == w.loadedShards[lruKey]
        written == IF shard.dirty /\ hasStorage
                   THEN [w EXCEPT !.store = MapSet(@, lruKey, encodeShard(shard.index)),
                                  !.writeLog = Append(@, lruKey)]
                   ELSE w
    IN  [written EXCEPT
            !.loadedShards = MapDel(@, lruKey),
            !.evictLog = Append(@,
                [ key |-> lruKey,
                  current |-> w.currentShardKey,
                  resident |-> [k \in DOMAIN w.loadedShards |-> w.loadedShards[k].lastAccess],
                  dirty |-> shard.dirty,
                  imageOk |-> /\ lruKey \in DOMAIN written.store
                              /\ written.store[lruKey] = encodeShard(shard.index) ])]

\* An eviction loop that never runs.
evictNothing(w) == w

RECURSIVE evictIfNeeded(_)
evictIfNeeded(w) ==
    IF Cardinality(DOMAIN w.loadedShards) > shardConfig.maxLoadedShards
       /\ DOMAIN w.loadedShards \ {w.currentShardKey} # {}
    THEN evictIfNeeded(evictOne(w, lruKeyOf(w)))
    ELSE w

createNewShard(w) ==
    LET key == ShardKey(Len(w.shardKeys))
        made == [Ticked(w, key) EXCEPT
                    !.shardKeys = Append(@, key),
                    !.currentShardKey = key,
                    !.currentShardCount = 0,
                    !.loadedShards = MapSet(@, key,
                        [index |-> NewIndex(hnswConfig), dirty |-> TRUE, lastAccess |-> NextTick(w)])]
    IN  evictIfNeeded(made)

\* getShard(key): whether it throws, the manager afterwards, and the index
\* of the shard object it returns.
getShardThrows(w, key) ==
    key \notin DOMAIN w.loadedShards /\ (~hasStorage \/ key \notin DOMAIN w.store)

\* The miss path of getShard once storage.read has returned the image.
loadShard(w, key) ==
    evictIfNeeded(
        [Ticked(w, key) EXCEPT
            !.loadedShards = MapSet(@, key,
                [index |-> decodeShard(w.store[key]), dirty |-> FALSE,
                 lastAccess |-> NextTick(w)])])

getShard(w, key) ==
    IF key \in DOMAIN w.loadedShards
    THEN [Ticked(w, key) EXCEPT !.loadedShards[key].lastAccess = NextTick(w)]
    ELSE loadShard(w, key)

getShardIndex(w, key) ==
    IF key \in DOMAIN w.loadedShards
    THEN w.loadedShards[key].index
    ELSE decodeShard(w.store[key])

\* A write through the shard object getShard returned: it reaches the
\* resident map only if that object is still the map's entry for the key.
UpdateShard(w, key, index) ==
    IF key \in DOMAIN w.loadedShards
    THEN [w EXCEPT !.loadedShards[key].index = index, !.loadedShards[key].dirty = TRUE]
    ELSE w

\* insert(id, vector): [w, ok]; ok is FALSE when the call throws.
managerInsert(w, id, vector, level) ==
    IF id \in DOMAIN w.idToShard THEN [w |-> w, ok |-> FALSE]
    ELSE LET w1 == IF w.currentShardKey = NoKey
                      \/ w.currentShardCount >= shardConfig.maxVectorsPerShard
                   THEN createNewShard(w) ELSE w
             key == w1.currentShardKey
         IN  IF getShardThrows(w1, key) THEN [w |-> w1, ok |-> FALSE]
             ELSE LET index == getShardIndex(w1, key)
                      w2 == getShard(w1, key)
                  IN  IF insertThrows(index, id, vector) THEN [w |-> w2, ok |-> FALSE]
                      ELSE [ w |-> [UpdateShard(w2, key, insert(index, id, vector, level))
                                       EXCEPT !.idToShard = MapSet(@, id, key),
                                              !.currentShardCount = @ + 1,
                                              !.totalCount = @ + 1],
                             ok |-> TRUE ]

\* The fan-out of search.  Each task calls getShard at once: a resident
\* shard is ticked in key order, a missing one starts a store read.
RECURSIVE FanOutStart(_, _)
FanOutStart(w, i) ==
    IF i > Len(w.shardKeys) THEN w
    ELSE LET key == w.shardKeys[i]
         IN  FanOutStart(IF key \in DOMAIN w.loadedShards THEN getShard(w, key) ELSE w, i + 1)

\* The reads complete in the order `order` (positions in shardKeys).
RECURSIVE FanOutLoads(_, _, _)
FanOutLoads(w, order, i) ==
    IF i > Len(order) THEN w
    ELSE LET key == w.shardKeys[order[i]]
         IN  FanOutLoads(IF hasStorage /\ key \in DOMAIN w.store THEN loadShard(w, key) ELSE w,
                         order, i + 1)

MissingPositions(w) ==
    {i \in 1..Len(w.shardKeys) : w.shardKeys[i] \notin DOMAIN w.loadedShards}

LoadOrders(w) ==
    LET P == MissingPositions(w)
    IN  {f \in [1..Cardinality(P) -> P] : \A i, j \in DOMAIN f : i # j => f[i] # f[j]}

\* heap.push(result) for every result of every shard, in shard-key order
RECURSIVE PushResults(_, _, _)
PushResults(heap, results, i) ==
    IF i > Len(results) THEN heap
    ELSE PushResults(HeapPush(TRUE, heap, results[i]), results, i + 1)

RECURSIVE PushAllResults(_, _, _)
PushAllResults(heap, allResults, i) ==
    IF i > Len(allResults) THEN heap
    ELSE PushAllResults(PushResults(heap, allResults[i], 1), allResults, i + 1)

\* while (merged.length < k && heap.size > 0): st = [w, ok, heap, merged]
RECURSIVE ExtractTopK(_, _, _)
ExtractTopK(st, k, includeVectors) ==
    IF st.ok /\ Len(st.merged) < k /\ Len(st.heap) > 0
    THEN LET item == HeapPeek(st.heap)
             heap == HeapPop(TRUE, st.heap)
             w == st.w
         IN  IF includeVectors /\ item.id \in DOMAIN w.idToShard
             THEN LET key == w.idToShard[item.id]
                  IN  IF getShardThrows(w, key) THEN [st EXCEPT !.ok = FALSE, !.heap = heap]
                      ELSE ExtractTopK(
                               [ w |-> getShard(w, key), ok |-> TRUE, heap |-> heap,
                                 merged |-> Append(st.merged,
                                     [ id |-> item.id, distance |-> item.distance,
                                       vector |-> getVector(getShardIndex(w, key), item.id) ]) ],
                               k, includeVectors)
             ELSE ExtractTopK(
                      [st EXCEPT !.heap = heap,
                                 !.merged = Append(@, [ id |-> item.id, distance |-> item.distance,
                                                        vector |-> << >> ])],
                      k, includeVectors)
    ELSE st

mergeTopK(w, allResults, k, includeVectors) ==
    ExtractTopK([ w |-> w, ok |-> TRUE, heap |-> PushAllResults(<< >>, allResults, 1),
                  merged |-> << >> ], k, includeVectors)

\* search(query, k, {filter, includeVectors}): [w, ok, allResults, merged]
managerSearch(w, query, k, filter, includeVectors, order) ==
    LET throws == \E i \in 1..Len(w.shardKeys) : getShardThrows(w, w.shardKeys[i])
        loaded == FanOutLoads(FanOutStart(w, 1), order, 1)
        allResults == [i \in 1..Len(w.shardKeys) |->
                          search(getShardIndex(w, w.shardKeys[i]), query, k, 0, filter)]
    IN  IF throws
        THEN [ w |-> loaded, ok |-> FALSE, allResults |-> << >>, merged |-> << >> ]
        ELSE LET st == mergeTopK(loaded, allResults, k, includeVectors)
             IN  [ w |-> st.w, ok |-> st.ok, allResults |-> allResults,
                   merged |-> IF st.ok THEN st.merged ELSE << >> ]

\* delete(id): [w, ok, returned]
managerDelete(w, id) ==
    IF id \notin DOMAIN w.idToShard THEN [w |-> w, ok |-> TRUE, returned |-> FALSE]
    ELSE LET key == w.idToShard[id]
         IN  IF getShardThrows(w, key) THEN [w |-> w, ok |-> FALSE, returned |-> FALSE]
             ELSE LET index == getShardIndex(w, key)
                      w1 == getShard(w, key)
                  IN  IF deleteReturns(index, id)
                      THEN [ w |-> [UpdateShard(w1, key, delete(index, id))
                                       EXCEPT !.idToShard = MapDel(@, id),
                                              !.totalCount = @ - 1],
                             ok |-> TRUE, returned |-> TRUE ]
                      ELSE [w |-> w1, ok |-> TRUE, returned |-> FALSE]

DirtyKeys(w) == {k \in DOMAIN w.loadedShards : w.loadedShards[k].dirty}

\* A flush that acknowledges every write and clears every dirty flag, whether
\* or not the store took the write.
flushClearsAll(w, acked) ==
    [w EXCEPT
        !.store = [k \in DOMAIN @ \cup acked |->
                      IF k \in acked THEN encodeShard(w.loadedShards[k].index) ELSE @[k]],
        !.loadedShards = [k \in DOMAIN @ |-> [@[k] EXCEPT !.dirty = FALSE]],
        !.writeLog = @ \o SortedSeq(acked)]

\* A flush that writes every resident shard, dirty or not.
flushWritesResident(w, acked) ==
    [w EXCEPT
        !.store = [k \in DOMAIN @ \cup DOMAIN w.loadedShards |->
                      IF k \in DOMAIN w.loadedShards
                      THEN encodeShard(w.loadedShards[k].index) ELSE @[k]],
        !.loadedShards = [k \in DOMAIN @ |-> [@[k] EXCEPT !.dirty = FALSE]],
        !.writeLog = @ \o SortedSeq(DOMAIN w.loadedShards)]

\* The writes of flush that the store has acknowledged by the time flush
\* returns: storage.write(key, encodeShard(index)).then(dirty = false), for
\* the dirty shards `acked`.
flushWrites(w, acked) ==
    [w EXCEPT
        !.store = [k \in DOMAIN @ \cup acked |->
                      IF k \in acked THEN encodeShard(w.loadedShards[k].index) ELSE @[k]],
        !.loadedShards = [k \in DOMAIN @ |->
                             IF k \in acked THEN [@[k] EXCEPT !.dirty = FALSE] ELSE @[k]],
        !.writeLog = @ \o SortedSeq(acked)]

\* flush() over a store that takes every write.
flush(w) == IF ~hasStorage THEN w ELSE flushWrites(w, DirtyKeys(w))

\* compact(): st = [w, ok]; draws[i] are the levels the new index of the
\* i-th key draws.
RECURSIVE CompactShards(_, _, _)
CompactShards(st, draws, i) ==
    IF ~st.ok \/ i > Len(st.w.shardKeys) THEN st
    ELSE LET w == st.w
             key == w.shardKeys[i]
         IN  IF getShardThrows(w, key) THEN [st EXCEPT !.ok = FALSE]
             ELSE CompactShards(
                      [ w |-> UpdateShard(getShard(w, key), key,
                                          compact(getShardIndex(w, key), draws[i])),
                        ok |-> TRUE ],
                      draws, i + 1)

managerCompact(w, draws) == CompactShards([w |-> w, ok |-> TRUE], draws, 1)

\* A close that drops the resident shards whether or not the flush succeeded.
releaseAlways(w, flushed) == [w EXCEPT !.loadedShards = EmptyMap]

\* close() after its flush: loadedShards.clear() runs only when the awaited
\* flush did not throw.
release(w, flushed) == IF flushed THEN [w EXCEPT !.loadedShards = EmptyMap] ELSE w

close(w) == release(flush(w), TRUE)

\* loadFromStorage() on a new manager: the loop over the sorted keys ...
RECURSIVE LoadKeys(_, _)
LoadKeys(w, i) ==
    IF i > Len(w.shardKeys) THEN w
    ELSE LET key == w.shardKeys[i]
             index == decodeShard(w.store[key])
             mapped == [w EXCEPT
                           !.idToShard = [x \in DOMAIN @ \cup {index.internalToExternal[n] : n \in 1..index.count} |->
                                             IF \E n \in 1..index.count : index.internalToExternal[n] = x
                                             THEN key ELSE @[x]],
                           !.totalCount = @ + IndexSize(index)]
         IN  LoadKeys(
                 IF Cardinality(DOMAIN mapped.loadedShards) < shardConfig.maxLoadedShards
                 THEN [Ticked(mapped, key) EXCEPT
                          !.loadedShards = MapSet(@, key,
                              [index |-> index, dirty |-> FALSE, lastAccess |-> NextTick(mapped)])]
                 ELSE mapped,
                 i + 1)

\* ... and the choice of the current shard.
loadFromStorage(w) ==
    IF ~hasStorage THEN w
    ELSE LET listed == LoadKeys([w EXCEPT !.shardKeys = SortedSeq(DOMAIN w.store)], 1)
         IN  IF Len(listed.shardKeys) > 0
             THEN LET lastKey == listed.shardKeys[Len(listed.shardKeys)]
                      current == [listed EXCEPT !.currentShardKey = lastKey]
                  IN  [getShard(current, lastKey) EXCEPT
                          !.currentShardCount = IndexSize(getShardIndex(current, lastKey))]
             ELSE listed

\* ------------------------------------------------------------ the system
Coords == 0..MaxCoord
GoodVectors == {<< c >> : c \in Coords}
BadVector == << 0, 0 >>           \* a vector whose length differs from dimensions
Filters == {Ids}                  \* the ids a filter accepts; Ids: no filter

HnswConfigs ==
    { [ dimensions |-> 1, M |-> 1, Mmax0 |-> 2, efConstruction |-> 2, efSearch |-> 1,
        useHeuristic |-> h, keepPrunedConnections |-> TRUE ] : h \in {TRUE} }

ShardConfigs ==
    { [ maxVectorsPerShard |-> m, maxLoadedShards |-> l ] : m \in 1..2, l \in 1..2 }

NoOp == [ name |-> "init", id |-> "", ok |-> TRUE, returned |-> FALSE, k |-> 0,
          allResults |-> << >>, result |-> << >>, acked |-> {} ]

NoSnap == [ valid |-> FALSE, size |-> 0, ids |-> {} ]

\* The state of shard `key` as the manager would see it on its next access.
HasState(w, key) == key \in DOMAIN w.loadedShards \/ key \in DOMAIN w.store

KeySet(w) == {w.shardKeys[i] : i \in 1..Len(w.shardKeys)}

SearchableIds(w) ==
    UNION {LiveIds(getShardIndex(w, key)) : key \in {x \in KeySet(w) : HasState(w, x)}}

MaxTickOf(log, floor) ==
    IF log = << >> THEN floor
    ELSE LET top == CHOOSE i \in 1..Len(log) : \A j \in 1..Len(log) : log[i].tick >= log[j].tick
         IN  Max2(floor, log[top].tick)

ManagerStart(n, hnswConfigs, shardConfigs) ==
    /\ hnswConfig \in hnswConfigs
    /\ shardConfig \in shardConfigs
    /\ hasStorage \in BOOLEAN
    /\ store = EmptyMap
    /\ loadedShards = EmptyMap
    /\ idToShard = EmptyMap
    /\ shardKeys = << >>
    /\ currentShardKey = NoKey
    /\ currentShardCount = 0
    /\ totalCount = 0
    /\ accessCounter = 0
    /\ lastOp = NoOp
    /\ evictLog = << >>
    /\ touchLog = << >>
    /\ prevMaxTick = -1
    /\ deletedIds = {}
    /\ closeSnap = NoSnap
    /\ budget = n
    /\ usedIds = {}
    /\ okInserts = 0
    /\ pristine = TRUE
    /\ writeLog = << >>
    /\ inFlight = {}

NoDraw == [ valid |-> FALSE, value |-> << >> ]

NoIndex == [ index |-> << >>, rng |-> << >> ]

\* No index is built beside the manager.
NoPair ==
    /\ seed = NoSeed
    /\ left = NoIndex
    /\ right = NoIndex
    /\ drawn = NoDraw

NoFanOut ==
    [ active |-> FALSE, finished |-> FALSE, query |-> << >>, k |-> 0,
      expected |-> << >>, tasks |-> EmptyMap ]

\* No call is in progress.
NoCall == [ name |-> "none" ]

NoSelection ==
    [ valid |-> FALSE, query |-> -1, candidates |-> << >>, maxNeighbors |-> 0,
      selected |-> << >> ]

StartWith(n, hnswConfigs, shardConfigs) ==
    /\ ManagerStart(n, hnswConfigs, shardConfigs)
    /\ NoPair
    /\ fanOut = NoFanOut
    /\ selection = NoSelection
    /\ running = NoCall

Start(n) == StartWith(n, HnswConfigs, ShardConfigs)

Init == Start(MaxSteps)

\* A write in flight clears the dirty flag of the shard object it was
\* started for; that object is gone once eviction or close dropped it.
StillAttached(pending, w) ==
    LET evicted == {w.evictLog[n].key : n \in 1..Len(w.evictLog)}
    IN  {[p EXCEPT !.attached = p.attached /\ p.key \notin evicted
                                             /\ p.key \in DOMAIN w.loadedShards] :
            p \in pending}

\* The manager's fields and the store after an operation that left `w`
\* with the writes `pending` in flight.
CommitWith(w, pending) ==
    /\ loadedShards' = w.loadedShards
    /\ idToShard' = w.idToShard
    /\ shardKeys' = w.shardKeys
    /\ currentShardKey' = w.currentShardKey
    /\ currentShardCount' = w.currentShardCount
    /\ totalCount' = w.totalCount
    /\ accessCounter' = w.accessCounter
    /\ store' = w.store
    /\ evictLog' = w.evictLog
    /\ touchLog' = w.touchLog
    /\ writeLog' = w.writeLog
    /\ inFlight' = StillAttached(pending, w)
    /\ prevMaxTick' = MaxTickOf(touchLog, prevMaxTick)
    /\ budget' = budget - 1
    /\ UNCHANGED << hnswConfig, shardConfig, hasStorage, seed, left, right, drawn, fanOut,
                    selection,
                    running >>

Commit(w) == CommitWith(w, inFlight)

\* External ids are opaque to the code, so a run first uses them in the
\* order of IdOrder: an insert names a used id or the first unused one.
FirstUse(id) ==
    \E i \in 1..Len(IdOrder) :
        /\ IdOrder[i] = id
        /\ \A j \in 1..(i - 1) : IdOrder[j] \in usedIds

Insert(id, vector, level) ==
    /\ budget > 0
    /\ id \in usedIds \/ FirstUse(id)
    /\ usedIds' = usedIds \cup {id}
    /\ LET r == managerInsert(World, id, vector, level)
       IN  /\ r.ok \/ level = 0
           /\ Commit(r.w)
           /\ lastOp' = [NoOp EXCEPT !.name = "insert", !.id = id, !.ok = r.ok]
           /\ deletedIds' = IF r.ok THEN deletedIds \ {id} ELSE deletedIds
           /\ okInserts' = IF r.ok THEN okInserts + 1 ELSE okInserts
           /\ pristine' = (pristine /\ r.ok)
           /\ closeSnap' = NoSnap

Search(query, k, filter, includeVectors) ==
    /\ budget > 0
    /\ UNCHANGED << usedIds, okInserts, pristine >>
    /\ \E order \in LoadOrders(World) :
           LET r == managerSearch(World, query, k, filter, includeVectors, order)
           IN  /\ Commit(r.w)
               /\ lastOp' = [NoOp EXCEPT !.name = "search", !.ok = r.ok, !.k = k,
                                         !.allResults = r.allResults, !.result = r.merged]
    /\ UNCHANGED deletedIds
    /\ closeSnap' = NoSnap

Delete(id) ==
    /\ budget > 0
    /\ UNCHANGED << usedIds, okInserts, pristine >>
    /\ LET r == managerDelete(World, id)
       IN  /\ Commit(r.w)
           /\ lastOp' = [NoOp EXCEPT !.name = "delete", !.id = id, !.ok = r.ok,
                                     !.returned = r.returned]
           /\ deletedIds' = IF r.returned THEN deletedIds \cup {id} ELSE deletedIds
    /\ closeSnap' = NoSnap

Flush ==
    /\ budget > 0
    /\ UNCHANGED << usedIds, okInserts, pristine >>
    /\ Commit(flush(World))
    /\ lastOp' = [NoOp EXCEPT !.name = "flush"]
    /\ UNCHANGED deletedIds
    /\ closeSnap' = NoSnap

Compact ==
    /\ budget > 0
    /\ UNCHANGED << usedIds, okInserts >>
    /\ pristine' = FALSE
    /\ \E stream \in [1..shardConfig.maxVectorsPerShard -> Levels] :
           LET draws == [i \in 1..Len(shardKeys) |-> stream] IN
           LET r == managerCompact(World, draws)
           IN  /\ Commit(r.w)
               /\ lastOp' = [NoOp EXCEPT !.name = "compact", !.ok = r.ok]
    /\ UNCHANGED deletedIds
    /\ closeSnap' = NoSnap

Close ==
    /\ budget > 0
    /\ UNCHANGED << usedIds, okInserts, pristine >>
    /\ Commit(close(World))
    /\ lastOp' = [NoOp EXCEPT !.name = "close"]
    /\ UNCHANGED deletedIds
    /\ closeSnap' = [ valid |-> TRUE, size |-> totalCount, ids |-> SearchableIds(World) ]

\* A new ShardManager over the same store, then loadFromStorage().
Reopen ==
    /\ hasStorage
    /\ budget > 0
    /\ LET w == loadFromStorage(FreshWorld)
       IN  /\ loadedShards' = w.loadedShards
           /\ idToShard' = w.idToShard
           /\ shardKeys' = w.shardKeys
           /\ currentShardKey' = w.currentShardKey
           /\ currentShardCount' = w.currentShardCount
           /\ totalCount' = w.totalCount
           /\ accessCounter' = w.accessCounter
           /\ store' = w.store
           /\ evictLog' = w.evictLog
           /\ touchLog' = w.touchLog
           /\ writeLog' = w.writeLog
    /\ inFlight' = {[p EXCEPT !.attached = FALSE] : p \in inFlight}
    /\ prevMaxTick' = -1
    /\ budget' = budget - 1
    /\ lastOp' = [NoOp EXCEPT !.name = "reopen"]
    /\ okInserts' = 0
    /\ pristine' = FALSE
    /\ UNCHANGED << hnswConfig, shardConfig, hasStorage, deletedIds, closeSnap, usedIds,
                    seed, left, right, drawn, fanOut, selection,
                    running >>

Next ==
    \/ \E id \in Ids, vector \in GoodVectors \cup {BadVector}, level \in Levels :
           Insert(id, vector, level)
    \/ \E query \in GoodVectors, k \in 1..MaxK, filter \in Filters, includeVectors \in BOOLEAN :
           Search(query, k, filter, includeVectors)
    \/ \E id \in Ids : Delete(id)
    \/ Flush
    \/ Compact
    \/ Close
    \/ Reopen

Spec == Init /\ [][Next]_vars

\* ---------------------------------------------------- long specification
\* Longer runs over a single vector value and level with a store: they
\* reach a manager opened over the shards an abandoned manager had evicted.
InitLong ==
    /\ Start(LongSteps)
    /\ hasStorage

NextLong ==
    \/ \E id \in Ids : Insert(id, << 0 >>, 0)
    \/ \E id \in Ids : Delete(id)
    \/ Close
    \/ Reopen

SpecLong == InitLong /\ [][NextLong]_vars

\* -------------------------------------------------- faulty specification
\* A store whose writes can be rejected.  flush() awaits Promise.all of its
\* writes, which rejects at the first rejection: the writes of `failing`
\* are rejected, those of `acked` were acknowledged before, the others are
\* still in flight when flush throws.
Started(failing, acked) ==
    {[key |-> k, image |-> encodeShard(loadedShards[k].index), attached |-> TRUE] :
        k \in DirtyKeys(World) \ (failing \cup acked)}

FlushFails(failing, acked) ==
    /\ budget > 0
    /\ hasStorage
    /\ failing # {}
    /\ failing \subseteq DirtyKeys(World)
    /\ acked \subseteq DirtyKeys(World) \ failing
    /\ CommitWith(flushWrites(World, acked), inFlight \cup Started(failing, acked))
    /\ lastOp' = [NoOp EXCEPT !.name = "flush", !.ok = FALSE, !.acked = acked]
    /\ closeSnap' = NoSnap
    /\ UNCHANGED << usedIds, okInserts, pristine, deletedIds >>

CloseFails(failing, acked) ==
    /\ budget > 0
    /\ hasStorage
    /\ failing # {}
    /\ failing \subseteq DirtyKeys(World)
    /\ acked \subseteq DirtyKeys(World) \ failing
    /\ CommitWith(release(flushWrites(World, acked), FALSE),
                  inFlight \cup Started(failing, acked))
    /\ lastOp' = [NoOp EXCEPT !.name = "close", !.ok = FALSE, !.acked = acked]
    /\ closeSnap' = NoSnap
    /\ UNCHANGED << usedIds, okInserts, pristine, deletedIds >>

\* The store takes a write that was in flight; its then-callback clears
\* the dirty flag of the shard object the write was started for.
WriteLands(p) ==
    /\ p \in inFlight
    /\ inFlight' = inFlight \ {p}
    /\ store' = MapSet(store, p.key, p.image)
    /\ loadedShards' = [k \in DOMAIN loadedShards |->
                           IF k = p.key /\ p.attached
                           THEN [loadedShards[k] EXCEPT !.dirty = FALSE]
                           ELSE loadedShards[k]]
    /\ writeLog' = << p.key >>
    /\ evictLog' = << >>
    /\ touchLog' = << >>
    /\ prevMaxTick' = MaxTickOf(touchLog, prevMaxTick)
    /\ lastOp' = [NoOp EXCEPT !.name = "ack"]
    /\ closeSnap' = NoSnap
    /\ UNCHANGED << hnswConfig, shardConfig, hasStorage, idToShard, shardKeys,
                    currentShardKey, currentShardCount, totalCount, accessCounter,
                    budget, usedIds, okInserts, pristine, deletedIds,
                    seed, left, right, drawn, fanOut, selection,
                    running >>

InitFaulty ==
    /\ Start(FaultySteps)
    /\ hasStorage

NextFaulty ==
    \/ \E id \in Ids : Insert(id, << 0 >>, 0)
    \/ \E id \in Ids : Delete(id)
    \/ Flush
    \/ Close
    \/ \E failing, acked \in SUBSET KeySet(World) : FlushFails(failing, acked)
    \/ \E failing, acked \in SUBSET KeySet(World) : CloseFails(failing, acked)
    \/ \E p \in inFlight : WriteLands(p)

SpecFaulty == InitFaulty /\ [][NextFaulty]_vars

\* ------------------------------------------------- flight specification
\* One flush in flight over a store that takes every write.  flush() starts
\* a write for every dirty shard within one turn of the event loop and
\* awaits them all; each write completes at some later time, and its
\* then-callback clears the dirty flag.  Meanwhile the caller may start
\* inserts and deletes, which run to their end.
InitFlight ==
    /\ Start(FlightSteps)
    /\ hasStorage

\* flush() up to its await: the images are encoded and the writes started.
FlushBegin ==
    /\ running = NoCall
    /\ budget > 0
    /\ budget' = budget - 1
    /\ inFlight' = inFlight \cup Started({}, {})
    /\ running' = [ name |-> "flush" ]
    /\ lastOp' = [NoOp EXCEPT !.name = "flushing"]
    /\ evictLog' = << >>
    /\ touchLog' = << >>
    /\ writeLog' = << >>
    /\ prevMaxTick' = MaxTickOf(touchLog, prevMaxTick)
    /\ closeSnap' = NoSnap
    /\ UNCHANGED << hnswConfig, shardConfig, hasStorage, store, loadedShards, idToShard,
                    shardKeys, currentShardKey, currentShardCount, totalCount,
                    accessCounter, usedIds, okInserts, pristine, deletedIds,
                    seed, left, right, drawn, fanOut, selection >>

\* Promise.all resolves: every write has completed, flush returns.
FlushEnd ==
    /\ running.name = "flush"
    /\ inFlight = {}
    /\ running' = NoCall
    /\ lastOp' = [NoOp EXCEPT !.name = "flush"]
    /\ evictLog' = << >>
    /\ touchLog' = << >>
    /\ writeLog' = << >>
    /\ prevMaxTick' = MaxTickOf(touchLog, prevMaxTick)
    /\ closeSnap' = NoSnap
    /\ UNCHANGED << hnswConfig, shardConfig, hasStorage, store, loadedShards, idToShard,
                    shardKeys, currentShardKey, currentShardCount, totalCount,
                    accessCounter, budget, usedIds, okInserts, pristine, deletedIds,
                    inFlight, seed, left, right, drawn, fanOut, selection >>

NextFlight ==
    \/ \E id \in Ids : Insert(id, << 0 >>, 0)
    \/ \E id \in Ids : Delete(id)
    \/ FlushBegin
    \/ \E p \in inFlight : WriteLands(p)
    \/ FlushEnd

SpecFlight == InitFlight /\ [][NextFlight]_vars

\* --------------------------------------------------- index specification
\* One index under every small configuration: a manager without a store
\* whose first shard never fills, so that insert, delete and compact act
\* on the same HNSWIndex.
IndexConfigs ==
    { [ dimensions |-> 1, M |-> m, Mmax0 |-> m0, efConstruction |-> 2, efSearch |-> 1,
        useHeuristic |-> h, keepPrunedConnections |-> p ] :
        m \in 1..MaxM, m0 \in 1..MaxM, h \in BOOLEAN, p \in BOOLEAN }

InitIndex ==
    /\ StartWith(IndexSteps, IndexConfigs,
                 {[maxVectorsPerShard |-> Len(IdOrder), maxLoadedShards |-> 1]})
    /\ ~hasStorage

NextIndex ==
    \/ \E id \in Ids, vector \in GoodVectors \cup {BadVector}, level \in Levels :
           Insert(id, vector, level)
    \/ \E id \in Ids : Delete(id)
    \/ Compact

SpecIndex == InitIndex /\ [][NextIndex]_vars

HasIndex == ShardKey(0) \in DOMAIN loadedShards

TheIndex == loadedShards[ShardKey(0)].index

TombstonedIds(idx) == {At(idx.internalToExternal, i) : i \in idx.deletedSet}

\* ----------------------------------------------- generator specification
\* One generator, created from a seed or from Math.random, called again
\* and again.  Seeds holds the seed 0xC3910C8E among its eight.
Seeds == {Word(hi, lo) : hi \in {0, \hC391}, lo \in {0, 1, 42, \h0C8E}}

PairConfigs ==
    { [ dimensions |-> 1, M |-> 2, Mmax0 |-> 2, efConstruction |-> 2, efSearch |-> 1,
        useHeuristic |-> h, keepPrunedConnections |-> TRUE ] : h \in BOOLEAN }

\* The manager is left unused.
Unused(n, hnswConfigs) ==
    /\ ManagerStart(n, hnswConfigs, {[maxVectorsPerShard |-> 1, maxLoadedShards |-> 1]})
    /\ ~hasStorage
    /\ fanOut = NoFanOut
    /\ selection = NoSelection
    /\ running = NoCall

ManagerUnchanged ==
    UNCHANGED << hnswConfig, shardConfig, hasStorage, store, loadedShards, idToShard,
                 shardKeys, currentShardKey, currentShardCount, totalCount, accessCounter,
                 evictLog, touchLog, prevMaxTick, deletedIds, closeSnap, okInserts,
                 pristine, writeLog, inFlight, fanOut >>

InitRng ==
    /\ Unused(RngDraws, {CHOOSE c \in PairConfigs : c.useHeuristic})
    /\ seed \in Seeds \cup {NoSeed}
    /\ \E entropy \in Seeds : left = NewSeeded(hnswConfig, seed, entropy)
    /\ right = left
    /\ drawn = NoDraw

\* The generator is called once.
Draw ==
    /\ budget > 0
    /\ budget' = budget - 1
    /\ LET d == xoshiro128ss(left.rng)
       IN  /\ left' = [left EXCEPT !.rng = d.rng]
           /\ drawn' = [valid |-> TRUE, value |-> d.value]
    /\ lastOp' = [NoOp EXCEPT !.name = "draw"]
    /\ ManagerUnchanged
    /\ UNCHANGED << seed, right, usedIds, selection,
                    running >>

NextRng == Draw

SpecRng == InitRng /\ [][NextRng]_vars

\* ---------------------------------------------------- pair specification
\* Two indexes built from the same seed and configuration receive the same
\* insert and delete calls.  Without a seed each generator starts from its
\* own Math.random value.
PairSeeds == {NoSeed, Word(0, 1), Word(0, 2), Word(0, 42)}

Entropies == {Word(0, 1), Word(0, 2)}

InitPair ==
    /\ Unused(PairSteps, PairConfigs)
    /\ seed \in PairSeeds
    /\ \E entropy \in Entropies : left = NewSeeded(hnswConfig, seed, entropy)
    /\ \E entropy \in Entropies : right = NewSeeded(hnswConfig, seed, entropy)
    /\ drawn = NoDraw

\* insert(id, vector) on both indexes.  A level of Infinity keeps the loop
\* over ensureLayer from ending: such a call does not return.
PairInsert(id, vector) ==
    /\ budget > 0
    /\ budget' = budget - 1
    /\ id \in usedIds \/ FirstUse(id)
    /\ usedIds' = usedIds \cup {id}
    /\ LET threw == insertThrows(left.index, id, vector)
           d == xoshiro128ss(left.rng)
       IN  /\ threw \/ randomLevel(hnswConfig, d.value) # Infinity
           /\ threw \/ insertThrows(right.index, id, vector)
                    \/ randomLevel(hnswConfig, xoshiro128ss(right.rng).value) # Infinity
           /\ left' = seededInsert(left, id, vector)
           /\ right' = seededInsert(right, id, vector)
           /\ drawn' = IF threw THEN NoDraw ELSE [valid |-> TRUE, value |-> d.value]
           /\ lastOp' = [NoOp EXCEPT !.name = "insert", !.id = id, !.ok = ~threw]
    /\ ManagerUnchanged
    /\ UNCHANGED << seed, selection,
                    running >>

PairDelete(id) ==
    /\ budget > 0
    /\ budget' = budget - 1
    /\ left' = seededDelete(left, id)
    /\ right' = seededDelete(right, id)
    /\ lastOp' = [NoOp EXCEPT !.name = "delete", !.id = id,
                              !.returned = deleteReturns(left.index, id)]
    /\ drawn' = NoDraw
    /\ ManagerUnchanged
    /\ UNCHANGED << seed, usedIds, selection,
                    running >>

NextPair ==
    \/ \E id \in Ids, vector \in GoodVectors \cup {BadVector} : PairInsert(id, vector)
    \/ \E id \in Ids : PairDelete(id)

SpecPair == InitPair /\ [][NextPair]_vars

\* ----------------------------------------------- selection specification
\* One index with the heuristic, built by inserts that draw their levels
\* from its generator, and one call of selectNeighborsHeuristic on it, made
\* as one of its two callers makes it: insert passes the list searchLayer
\* returned, nearest first, for the node it inserts; addConnection passes
\* the full row of a node followed by the new neighbor.
SelectConfigs ==
    { [ dimensions |-> 1, M |-> 2, Mmax0 |-> m0, efConstruction |-> 2, efSearch |-> 1,
        useHeuristic |-> TRUE, keepPrunedConnections |-> p ] :
        m0 \in 1..MaxM, p \in BOOLEAN }

InitSelect ==
    /\ Unused(SelectSteps, SelectConfigs)
    /\ seed = Word(0, 42)
    /\ left = NewSeeded(hnswConfig, seed, seed)
    /\ right = NoIndex
    /\ drawn = NoDraw

\* insert(n, vector), n being the number of inserts made before.
SelectInsert(vector) ==
    /\ budget > 1
    /\ budget' = budget - 1
    /\ randomLevel(hnswConfig, xoshiro128ss(left.rng).value) # Infinity
    /\ left' = seededInsert(left, left.index.count, vector)
    /\ selection' = NoSelection
    /\ lastOp' = [NoOp EXCEPT !.name = "insert"]
    /\ ManagerUnchanged
    /\ UNCHANGED << seed, right, drawn, usedIds, running >>

\* The lists of distinct nodes other than `node`, and such a list as
\* candidates of `node`.
ListsWithout(idx, node) ==
    LET others == (0..(idx.count - 1)) \ {node}
    IN  { s \in UNION {[1..n -> others] : n \in 0..Cardinality(others)} :
              \A i, j \in DOMAIN s : i # j => s[i] # s[j] }

CandidatesOf(idx, node, s) ==
    [i \in 1..Len(s) |-> [id |-> s[i], distance |-> distance(idx, node, s[i])]]

Selects(node, candidates, maxNeighbors) ==
    /\ budget > 0
    /\ budget' = budget - 1
    /\ selection' = [ valid |-> TRUE, query |-> node, candidates |-> candidates,
                      maxNeighbors |-> maxNeighbors,
                      selected |-> selectNeighborsHeuristic(left.index, candidates,
                                                            maxNeighbors) ]
    /\ lastOp' = [NoOp EXCEPT !.name = "select"]
    /\ ManagerUnchanged
    /\ UNCHANGED << seed, left, right, drawn, usedIds, running >>

\* insert: the candidates of layer `layer` for the node being inserted.
SelectAtInsert(node, s, layer) ==
    /\ node \in 0..(left.index.count - 1)
    /\ s \in ListsWithout(left.index, node)
    /\ LET candidates == CandidatesOf(left.index, node, s)
       IN  /\ \A i \in 1..(Len(s) - 1) : candidates[i].distance <= candidates[i + 1].distance
           /\ Selects(node, candidates, maxNOf(hnswConfig, layer))

\* addConnection: the full row of `node` and one more neighbor.
SelectAtOverflow(node, s, layer) ==
    /\ node \in 0..(left.index.count - 1)
    /\ s \in ListsWithout(left.index, node)
    /\ Len(s) = maxNOf(hnswConfig, layer) + 1
    /\ Selects(node, CandidatesOf(left.index, node, s), maxNOf(hnswConfig, layer))

SelectNodes == 0..(SelectSteps - 2)

SelectLists == UNION {[1..n -> SelectNodes] : n \in 0..(SelectSteps - 2)}

NextSelect ==
    \/ \E vector \in GoodVectors : SelectInsert(vector)
    \/ \E node \in SelectNodes, s \in SelectLists, layer \in 0..1 :
           SelectAtInsert(node, s, layer)
    \/ \E node \in SelectNodes, s \in SelectLists, layer \in 0..1 :
           SelectAtOverflow(node, s, layer)

SpecSelect == InitSelect /\ [][NextSelect]_vars

\* ---------------------------------------------------- wide specification
\* One index whose layer-0 rows have 256 slots, the default Mmax0 = 2 * M
\* of M = 128.  Every insert stores the vector [0] under a new id and draws
\* level 0; with efConstruction = 1 its search returns the entry point
\* alone, so that every insert adds one back-edge to the row of node 0.
WideConfig ==
    [ dimensions |-> 1, M |-> 128, Mmax0 |-> 256, efConstruction |-> 1, efSearch |-> 1,
      useHeuristic |-> TRUE, keepPrunedConnections |-> TRUE ]

InitWide ==
    /\ Unused(WideSteps, {WideConfig})
    /\ seed = NoSeed
    /\ left = [index |-> NewIndex(hnswConfig), rng |-> << >>]
    /\ right = NoIndex
    /\ drawn = NoDraw

WideInsert ==
    /\ budget > 0
    /\ budget' = budget - 1
    /\ left' = [left EXCEPT !.index = insert(@, @.count, << 0 >>, 0)]
    /\ lastOp' = [NoOp EXCEPT !.name = "insert"]
    /\ ManagerUnchanged
    /\ UNCHANGED << seed, right, drawn, usedIds, selection,
                    running >>

NextWide == WideInsert

SpecWide == InitWide /\ [][NextWide]_vars

\* ---------------------------------------------------- loop specification
\* One index whose insert is followed through its loop
\*     for (l = 0; l <= level; l++) ensureLayer(l)
\* one round at a time.  The call draws its level first; what it does after
\* the loop is applied when the loop is left.  insert is synchronous, so no
\* other call starts before it returns.  A level of Infinity keeps l <= level
\* true for ever; such a loop is followed for MaxLayers rounds.  search is a
\* single step: its loops are the operators GreedyDescent and BeamLoop.
LoopSeeds == {Word(0, 42), Word(\hC391, \h0C8E)}

LoopConfigs ==
    { [ dimensions |-> 1, M |-> m, Mmax0 |-> 2, efConstruction |-> 2, efSearch |-> 1,
        useHeuristic |-> TRUE, keepPrunedConnections |-> TRUE ] : m \in 1..MaxM }

InitLoop ==
    /\ Unused(LoopSteps, LoopConfigs)
    /\ seed \in LoopSeeds
    /\ left = NewSeeded(hnswConfig, seed, seed)
    /\ right = NoIndex
    /\ drawn = NoDraw

\* l <= level
WithinLevel(l, level) == level = Infinity \/ l <= level

\* insert(n, vector), n being the number of inserts made before, up to the
\* loop over the layers.
LoopInsertBegin(vector) ==
    /\ running = NoCall
    /\ budget > 0
    /\ budget' = budget - 1
    /\ LET d == xoshiro128ss(left.rng)
       IN  /\ left' = [left EXCEPT !.rng = d.rng]
           /\ drawn' = [valid |-> TRUE, value |-> d.value]
           /\ running' = [ name |-> "insert", id |-> left.index.count, vector |-> vector,
                           level |-> randomLevel(hnswConfig, d.value), l |-> 0 ]
    /\ lastOp' = [NoOp EXCEPT !.name = "insert", !.ok = FALSE]
    /\ ManagerUnchanged
    /\ UNCHANGED << seed, right, usedIds, selection >>

\* One round of the loop: l <= level holds, ensureLayer(l), l++.
LoopLayer ==
    /\ running.name = "insert"
    /\ WithinLevel(running.l, running.level)
    /\ running.level = Infinity => running.l < MaxLayers
    /\ running' = [running EXCEPT !.l = @ + 1]
    /\ ManagerUnchanged
    /\ UNCHANGED << seed, left, right, drawn, usedIds, selection, lastOp, budget >>

\* The loop is left; the node is linked and insert returns.
LoopInsertEnd ==
    /\ running.name = "insert"
    /\ ~WithinLevel(running.l, running.level)
    /\ left' = [left EXCEPT
                   !.index = insert(@, running.id, running.vector, running.level)]
    /\ running' = NoCall
    /\ lastOp' = [NoOp EXCEPT !.name = "insert"]
    /\ ManagerUnchanged
    /\ UNCHANGED << seed, right, drawn, usedIds, selection, budget >>

LoopSearch(query, k) ==
    /\ running = NoCall
    /\ budget > 0
    /\ budget' = budget - 1
    /\ lastOp' = [NoOp EXCEPT !.name = "search", !.k = k,
                              !.result = search(left.index, query, k, 0, 0..LoopSteps)]
    /\ ManagerUnchanged
    /\ UNCHANGED << seed, left, right, drawn, usedIds, selection, running >>

NextLoop ==
    \/ \E vector \in GoodVectors : LoopInsertBegin(vector)
    \/ LoopLayer
    \/ LoopInsertEnd
    \/ \E query \in GoodVectors, k \in 1..MaxK : LoopSearch(query, k)

SpecLoop == InitLoop /\ [][NextLoop]_vars

\* What LoopInsertEnd does to the call: a call that has left the loop over
\* the layers returns.
LoopReturns ==
    /\ running.name = "insert"
    /\ ~WithinLevel(running.l, running.level)
    /\ running' = NoCall

\* The code is synchronous: a call that has started goes on, round after
\* round of its loop, and returns once the loop is left.
SpecLoopFair == SpecLoop /\ WF_running(LoopLayer) /\ WF_running(LoopReturns)

\* ---------------------------------------------------- tall specification
\* One index under a configuration whose mL is set far above its default of
\* 1 / ln(M): randomLevel() = floor(-ln(u) * mL) then draws levels of 256
\* and more (under mL = 400, for every u below 0.527).  Every insert stores
\* its vector under a new id; `level` is what randomLevel() draws for it.
TallLevels == {0, 1, 256}

TallConfig ==
    [ dimensions |-> 1, M |-> 2, Mmax0 |-> 2, efConstruction |-> 2, efSearch |-> 1,
      useHeuristic |-> TRUE, keepPrunedConnections |-> TRUE ]

InitTall ==
    /\ Unused(TallSteps, {TallConfig})
    /\ seed = NoSeed
    /\ left = [index |-> NewIndex(hnswConfig), rng |-> << >>]
    /\ right = NoIndex
    /\ drawn = NoDraw

TallInsert(vector, level) ==
    /\ budget > 0
    /\ budget' = budget - 1
    /\ left' = [left EXCEPT !.index = insert(@, @.count, vector, level)]
    /\ lastOp' = [NoOp EXCEPT !.name = "insert"]
    /\ ManagerUnchanged
    /\ UNCHANGED << seed, right, drawn, usedIds, selection,
                    running >>

NextTall == \E vector \in GoodVectors, level \in TallLevels : TallInsert(vector, level)

SpecTall == InitTall /\ [][NextTall]_vars

\* -------------------------------------------------- resize specification
\* One index whose arrays are reallocated: inserts grow them, shrinkToFit
\* cuts them, and the index is encoded and decoded again.  From its first
\* shrinkToFit on, `right` is the same index without that call, given the
\* same calls afterwards.
ResizeConfigs ==
    { [ dimensions |-> 1, M |-> 2, Mmax0 |-> m0, efConstruction |-> 2, efSearch |-> 1,
        useHeuristic |-> TRUE, keepPrunedConnections |-> TRUE ] : m0 \in 1..MaxM }

InitResize ==
    /\ Unused(ResizeSteps, ResizeConfigs)
    /\ seed = Word(0, 42)
    /\ left = NewSeeded(hnswConfig, seed, seed)
    /\ right = NoIndex
    /\ drawn = NoDraw

ResizeInsert(id, vector) ==
    /\ budget > 0
    /\ budget' = budget - 1
    /\ id \in usedIds \/ FirstUse(id)
    /\ usedIds' = usedIds \cup {id}
    /\ LET threw == insertThrows(left.index, id, vector)
       IN  /\ threw \/ randomLevel(hnswConfig, xoshiro128ss(left.rng).value) # Infinity
           /\ left' = seededInsert(left, id, vector)
           /\ right' = IF right = NoIndex THEN right ELSE seededInsert(right, id, vector)
           /\ lastOp' = [NoOp EXCEPT !.name = "insert", !.id = id, !.ok = ~threw]
    /\ ManagerUnchanged
    /\ UNCHANGED << seed, drawn, selection, running >>

ResizeDelete(id) ==
    /\ budget > 0
    /\ budget' = budget - 1
    /\ left' = seededDelete(left, id)
    /\ right' = IF right = NoIndex THEN right ELSE seededDelete(right, id)
    /\ lastOp' = [NoOp EXCEPT !.name = "delete", !.id = id,
                              !.returned = deleteReturns(left.index, id)]
    /\ ManagerUnchanged
    /\ UNCHANGED << seed, drawn, usedIds, selection, running >>

\* decodeShard(encodeShard(index))
ResizeReload ==
    /\ budget > 0
    /\ budget' = budget - 1
    /\ left' = [left EXCEPT !.index = decodeShard(encodeShard(@))]
    /\ right' = IF right = NoIndex THEN right
                ELSE [right EXCEPT !.index = decodeShard(encodeShard(@))]
    /\ lastOp' = [NoOp EXCEPT !.name = "decode"]
    /\ ManagerUnchanged
    /\ UNCHANGED << seed, drawn, usedIds, selection, running >>

\* index.shrinkToFit()
ResizeShrink ==
    /\ budget > 0
    /\ budget' = budget - 1
    /\ left' = [left EXCEPT !.index = shrinkToFit(@)]
    /\ right' = IF right = NoIndex THEN left ELSE right
    /\ lastOp' = [NoOp EXCEPT !.name = "shrinkToFit"]
    /\ ManagerUnchanged
    /\ UNCHANGED << seed, drawn, usedIds, selection, running >>

NextResize ==
    \/ \E id \in Ids, vector \in GoodVectors : ResizeInsert(id, vector)
    \/ \E id \in Ids : ResizeDelete(id)
    \/ ResizeReload
    \/ ResizeShrink

SpecResize == InitResize /\ [][NextResize]_vars

\* --------------------------------------------------- async specification
\* One search in flight over a store.  search() calls getShard for every
\* key at once.  A resident shard is handed over and searched within the
\* same turn of the event loop, before any call made later can touch it.
\* A missing shard is read from the store; when the read completes getShard
\* decodes it, puts it into the resident map and awaits evictIfNeeded,
\* which awaits the store once for every dirty victim; the shard is
\* searched when evictIfNeeded returns.  Reads and writes take effect when
\* they are issued and complete at any later time.  Meanwhile the caller
\* may start deletes and inserts that find their shard resident; such a
\* call runs to its end without waiting for the store.
AsyncShardConfigs ==
    { [ maxVectorsPerShard |-> m, maxLoadedShards |-> l ] : m \in 1..2, l \in 1..2 }

NoIndexHeld == << >>

\* evictIfNeeded up to its next await: clean victims are dropped at once,
\* a dirty victim is written and the loop waits; `victim` is that key.
RECURSIVE evictUntilWrite(_)
evictUntilWrite(w) ==
    IF Cardinality(DOMAIN w.loadedShards) > shardConfig.maxLoadedShards
       /\ DOMAIN w.loadedShards \ {w.currentShardKey} # {}
    THEN LET lruKey == lruKeyOf(w)
             shard == w.loadedShards[lruKey]
         IN  IF shard.dirty /\ hasStorage
             THEN [ w |-> [w EXCEPT !.store = MapSet(@, lruKey, encodeShard(shard.index)),
                                    !.writeLog = Append(@, lruKey)],
                    victim |-> lruKey ]
             ELSE evictUntilWrite([w EXCEPT !.loadedShards = MapDel(@, lruKey)])
    ELSE [ w |-> w, victim |-> NoKey ]

\* The tasks after a step that left the manager as `after`: a task whose
\* shard left the resident map keeps the object it was handed, as it was.
Detach(tasks, holders, before, after) ==
    [key \in DOMAIN tasks |->
        IF /\ key \in holders
           /\ tasks[key].held = NoIndexHeld
           /\ key \in DOMAIN before.loadedShards
           /\ key \notin DOMAIN after.loadedShards
        THEN [tasks[key] EXCEPT !.held = before.loadedShards[key].index]
        ELSE tasks[key]]

Holders(tasks) == {key \in DOMAIN tasks : tasks[key].pc = "write"}

\* The task of `key` after evictIfNeeded went on from `before` and stopped
\* at r: it waits for a write, or getShard returns and the shard is searched.
Resume(tasks, key, before, r) ==
    LET kept == Detach(tasks, Holders(tasks) \cup {key}, before, r.w)
        index == IF kept[key].held # NoIndexHeld THEN kept[key].held
                 ELSE r.w.loadedShards[key].index
    IN  IF r.victim # NoKey
        THEN [kept EXCEPT ![key].pc = "write", ![key].victim = r.victim]
        ELSE [kept EXCEPT ![key].pc = "done",
                          ![key].results = search(index, fanOut.query, fanOut.k, 0, Ids)]

AsyncCommit(w) ==
    /\ loadedShards' = w.loadedShards
    /\ idToShard' = w.idToShard
    /\ shardKeys' = w.shardKeys
    /\ currentShardKey' = w.currentShardKey
    /\ currentShardCount' = w.currentShardCount
    /\ totalCount' = w.totalCount
    /\ accessCounter' = w.accessCounter
    /\ store' = w.store
    /\ evictLog' = << >>
    /\ touchLog' = w.touchLog
    /\ writeLog' = w.writeLog
    /\ prevMaxTick' = MaxTickOf(touchLog, prevMaxTick)
    /\ closeSnap' = NoSnap
    /\ UNCHANGED << hnswConfig, shardConfig, hasStorage, deletedIds, usedIds, okInserts,
                    pristine, inFlight, seed, left, right, drawn, selection,
                    running >>

\* search(query, k) is called: the synchronous part of the fan-out.
SearchBegin(query, k) ==
    /\ ~fanOut.active /\ ~fanOut.finished
    /\ shardKeys # << >>
    /\ \A key \in KeySet(World) : ~getShardThrows(World, key)
    /\ AsyncCommit(FanOutStart(World, 1))
    /\ fanOut' =
           [ active |-> TRUE, finished |-> FALSE, query |-> query, k |-> k,
             expected |-> managerSearch(World, query, k, Ids, FALSE, << >>).merged,
             tasks |-> [key \in KeySet(World) |->
                          IF key \in DOMAIN loadedShards
                          THEN [ pc |-> "done", image |-> << >>, victim |-> NoKey,
                                 held |-> NoIndexHeld,
                                 results |-> search(loadedShards[key].index, query, k, 0, Ids) ]
                          ELSE [ pc |-> "read", image |-> store[key], victim |-> NoKey,
                                 held |-> NoIndexHeld, results |-> << >> ]] ]
    /\ lastOp' = [NoOp EXCEPT !.name = "searching"]
    /\ UNCHANGED budget

\* storage.read(key) completes for the task of `key`.
ReadDone(key) ==
    /\ fanOut.active
    /\ key \in DOMAIN fanOut.tasks
    /\ fanOut.tasks[key].pc = "read"
    /\ LET loaded == [Ticked(World, key) EXCEPT
                         !.loadedShards = MapSet(@, key,
                             [index |-> decodeShard(fanOut.tasks[key].image), dirty |-> FALSE,
                              lastAccess |-> NextTick(World)])]
           r == evictUntilWrite(loaded)
       IN  /\ AsyncCommit(r.w)
           /\ fanOut' = [fanOut EXCEPT !.tasks = Resume(@, key, loaded, r)]
    /\ lastOp' = [NoOp EXCEPT !.name = "read"]
    /\ UNCHANGED budget

\* storage.write completes for the eviction loop of the task of `key`.
WriteDone(key) ==
    /\ fanOut.active
    /\ key \in DOMAIN fanOut.tasks
    /\ fanOut.tasks[key].pc = "write"
    /\ LET r == evictUntilWrite(
                    [World EXCEPT !.loadedShards = MapDel(@, fanOut.tasks[key].victim)])
       IN  /\ AsyncCommit(r.w)
           /\ fanOut' = [fanOut EXCEPT !.tasks = Resume(@, key, World, r)]
    /\ lastOp' = [NoOp EXCEPT !.name = "written"]
    /\ UNCHANGED budget

\* delete(id), called while the search is in flight, on a resident shard.
FastDelete(id) ==
    /\ fanOut.active
    /\ budget > 0
    /\ id \in DOMAIN idToShard
    /\ idToShard[id] \in DOMAIN loadedShards
    /\ AsyncCommit(managerDelete(World, id).w)
    /\ lastOp' = [NoOp EXCEPT !.name = "delete", !.id = id]
    /\ budget' = budget - 1
    /\ UNCHANGED fanOut

\* insert(id, vector), called while the search is in flight, into a
\* resident write shard that has room.
FastInsert(id, vector) ==
    /\ fanOut.active
    /\ budget > 0
    /\ id \notin DOMAIN idToShard
    /\ currentShardKey \in DOMAIN loadedShards
    /\ currentShardCount < shardConfig.maxVectorsPerShard
    /\ ~insertThrows(loadedShards[currentShardKey].index, id, vector)
    /\ AsyncCommit(managerInsert(World, id, vector, 0).w)
    /\ lastOp' = [NoOp EXCEPT !.name = "insert", !.id = id]
    /\ budget' = budget - 1
    /\ UNCHANGED fanOut

\* Promise.all resolves and the results are merged.
SearchEnd ==
    /\ fanOut.active
    /\ \A key \in DOMAIN fanOut.tasks : fanOut.tasks[key].pc = "done"
    /\ LET allResults == [i \in 1..Len(shardKeys) |-> fanOut.tasks[shardKeys[i]].results]
           st == mergeTopK(World, allResults, fanOut.k, FALSE)
       IN  /\ AsyncCommit(st.w)
           /\ lastOp' = [NoOp EXCEPT !.name = "search", !.k = fanOut.k,
                                     !.allResults = allResults, !.result = st.merged]
    /\ fanOut' = [fanOut EXCEPT !.active = FALSE, !.finished = TRUE]
    /\ UNCHANGED budget

InitAsync ==
    /\ StartWith(AsyncSteps, HnswConfigs, AsyncShardConfigs)
    /\ hasStorage

Idle == ~fanOut.active /\ ~fanOut.finished

NextAsync ==
    \/ \E id \in Ids, vector \in GoodVectors : Idle /\ Insert(id, vector, 0)
    \/ \E id \in Ids : Idle /\ Delete(id)
    \/ Idle /\ Flush
    \/ \E query \in GoodVectors, k \in 1..MaxK : SearchBegin(query, k)
    \/ \E key \in KeySet(World) : ReadDone(key)
    \/ \E key \in KeySet(World) : WriteDone(key)
    \/ \E id \in Ids : FastDelete(id)
    \/ \E id \in Ids, vector \in GoodVectors : FastInsert(id, vector)
    \/ SearchEnd

SpecAsync == InitAsync /\ [][NextAsync]_vars

\* ----------------------------------------------------------------- claims
SearchDone == lastOp.name = "search" /\ lastOp.ok

ResultIds(results) == {results[i].id : i \in 1..Len(results)}

\* C1: once delete(id) has returned true, and until id is inserted again,
\* no search of the manager returns id, whatever operations come between.
C1_DeletedIdNeverReturned ==
    SearchDone => ResultIds(lastOp.result) \cap deletedIds = {}

\* C2: a manager opened with loadFromStorage right after a close reports
\* the size and the set of searchable ids the closed manager had.
C2_ReopenRestoresSizeAndIds ==
    (lastOp.name = "reopen" /\ closeSnap.valid) =>
        /\ totalCount = closeSnap.size
        /\ SearchableIds(World) = closeSnap.ids

\* C3: for every index a shard holds, decode(encode(idx)) answers every
\* query and k with the same ordered list of (id, distance) pairs as idx.
C3_RoundTripSearchAgrees ==
    \A key \in DOMAIN loadedShards : \A query \in GoodVectors, k \in 1..MaxK :
        search(decodeShard(encodeShard(loadedShards[key].index)), query, k, 0, Ids)
            = search(loadedShards[key].index, query, k, 0, Ids)

\* C4: every external id is live in at most one shard, and no search result
\* lists an id twice.
C4_IdsUniqueAcrossShards ==
    /\ \A i, j \in 1..Len(shardKeys) :
           (i # j /\ HasState(World, shardKeys[i]) /\ HasState(World, shardKeys[j])) =>
               LiveIds(getShardIndex(World, shardKeys[i]))
                   \cap LiveIds(getShardIndex(World, shardKeys[j])) = {}
    /\ SearchDone =>
           \A i, j \in 1..Len(lastOp.result) :
               i # j => lastOp.result[i].id # lastOp.result[j].id

ImageIds(image) == {image.ids[n] : n \in 1..image.count}

\* C5: with a store, a dirty shard is written before it leaves the resident
\* map, and every key of the key list is resident or has an image that
\* holds every id the manager maps to that key.
C5_EvictionPersistsDirtyShards ==
    hasStorage =>
        /\ \A n \in 1..Len(evictLog) : evictLog[n].dirty => evictLog[n].imageOk
        /\ \A key \in KeySet(World) :
               \/ key \in DOMAIN loadedShards
               \/ /\ key \in DOMAIN store
                  /\ \A id \in DOMAIN idToShard :
                         idToShard[id] = key => id \in ImageIds(store[key])

\* The slots allocated in shard position i: of its resident index, else of
\* its stored image, else none.
Allocated(i) ==
    IF HasState(World, shardKeys[i]) THEN getShardIndex(World, shardKeys[i]).count ELSE 0

\* C6: after n successful inserts into a fresh manager, with no failed
\* insert, there are ceil(n/m) shards, each but the last holds m allocated
\* vectors, the last holds the rest, and none holds more than m.
C6_ShardsFillInOrder ==
    pristine =>
        LET m == shardConfig.maxVectorsPerShard
            n == okInserts
        IN  /\ Len(shardKeys) = CeilDiv(n, m)
            /\ \A i \in 1..Len(shardKeys) :
                   Allocated(i) = IF i < Len(shardKeys) THEN m ELSE n - m * (Len(shardKeys) - 1)

RECURSIVE Flatten(_, _)
Flatten(lists, i) == IF i > Len(lists) THEN << >> ELSE lists[i] \o Flatten(lists, i + 1)

\* Every per-shard result, in the order the merge pushes them.
Pushed == Flatten(lastOp.allResults, 1)

Occurrences(seq, id, d) ==
    Cardinality({i \in 1..Len(seq) : seq[i].id = id /\ seq[i].distance = d})

\* C7: search returns the min(k, total) entries of least distance of the
\* multiset union of the per-shard results, in ascending distance order.
C7_MergeReturnsKSmallest ==
    SearchDone =>
        LET res == lastOp.result
            byDistance == SortByDistance(Pushed)
        IN  /\ Len(res) = Min2(lastOp.k, Len(Pushed))
            /\ \A i \in 1..Len(res) : res[i].distance = byDistance[i].distance
            /\ \A i \in 1..Len(res) :
                   Occurrences(res, res[i].id, res[i].distance)
                       <= Occurrences(Pushed, res[i].id, res[i].distance)

\* The result a stable merge gives: the first min(k, total) entries of the
\* pushed entries sorted by distance, ties kept in push order.
StablePrefix == SubSeq(SortByDistance(Pushed), 1, Min2(lastOp.k, Len(Pushed)))

SameEntries(res, cands) ==
    /\ Len(res) = Len(cands)
    /\ \A i \in 1..Len(res) : res[i].id = cands[i].id /\ res[i].distance = cands[i].distance

\* C8 as claimed: the merge is stable for every number of tied entries.
C8_MergeStable == SearchDone => SameEntries(lastOp.result, StablePrefix)

\* C8 as amended: the merge keeps push order among ties when at most two
\* results are pushed onto the heap.
C8_MergeStableUpToTwo ==
    (SearchDone /\ Len(Pushed) <= 2) => SameEntries(lastOp.result, StablePrefix)

\* C9: after each operation at most maxLoadedShards shards are resident.
C9_ResidentBounded ==
    Cardinality(DOMAIN loadedShards) <= shardConfig.maxLoadedShards

\* C10: every evicted shard had, when chosen, the least tick among the
\* resident shards other than the current write shard, which is never
\* evicted; every tick handed out is larger than all handed out before.
C10_EvictsLeastRecentlyUsed ==
    /\ \A n \in 1..Len(evictLog) :
           LET e == evictLog[n]
           IN  /\ e.key # e.current
               /\ e.key \in DOMAIN e.resident
               /\ \A k \in DOMAIN e.resident \ {e.current} : e.resident[e.key] <= e.resident[k]
    /\ \A n \in 1..Len(touchLog) :
           touchLog[n].tick > (IF n = 1 THEN MaxTickOf(<< >>, prevMaxTick) ELSE touchLog[n - 1].tick)

Written(log) == {log[n] : n \in 1..Len(log)}

\* C11: a flush that succeeds with a store leaves no resident shard dirty,
\* leaves in the store the image of every shard that was dirty, and writes
\* no shard that was clean.
C11_FlushWritesDirtyOnly ==
    [][ (lastOp'.name = "flush" /\ lastOp'.ok /\ hasStorage) =>
            /\ \A k \in DOMAIN loadedShards' : ~loadedShards'[k].dirty
            /\ \A k \in DOMAIN loadedShards :
                   IF loadedShards[k].dirty
                   THEN /\ k \in DOMAIN store'
                        /\ k \in DOMAIN loadedShards'
                        /\ store'[k] = encodeShard(loadedShards'[k].index)
                   ELSE k \notin Written(writeLog') ]_vars

\* C12: when a write of flush is rejected, flush fails, a shard whose write
\* was not acknowledged stays dirty, a dirty flag is cleared only in a step
\* that wrote the shard, and a later flush that succeeds writes every
\* shard still dirty.
C12_FailedFlushKeepsDirty ==
    [][ /\ (lastOp'.name = "flush" /\ ~lastOp'.ok) =>
               \A k \in DirtyKeys(World) \ lastOp'.acked :
                   k \in DOMAIN loadedShards' /\ loadedShards'[k].dirty
        /\ (lastOp'.name \in {"flush", "ack"}) =>
               \A k \in DOMAIN loadedShards \cap DOMAIN loadedShards' :
                   (loadedShards[k].dirty /\ ~loadedShards'[k].dirty) =>
                       k \in Written(writeLog')
        /\ (lastOp'.name = "flush" /\ lastOp'.ok) =>
               DirtyKeys(World) \subseteq Written(writeLog') ]_vars

\* C13: a close whose flush succeeds leaves the resident map empty and the
\* store holding the image of every shard that was dirty; a close whose
\* flush fails drops no resident shard.
C13_CloseDropsAfterFlush ==
    [][ (lastOp'.name = "close" /\ hasStorage) =>
            IF lastOp'.ok
            THEN /\ DOMAIN loadedShards' = {}
                 /\ \A k \in DirtyKeys(World) :
                        k \in DOMAIN store' /\ store'[k] = encodeShard(loadedShards[k].index)
            ELSE /\ DOMAIN loadedShards' = DOMAIN loadedShards
                 /\ \A k \in DOMAIN loadedShards :
                        loadedShards'[k].index = loadedShards[k].index ]_vars


\* C14: an Index.insert that fails, on an id already present (live or
\* tombstoned) or on a vector of the wrong length, leaves the index as it was.
C14_FailedInsertChangesNothing ==
    HasIndex =>
        \A id \in Ids, vector \in GoodVectors \cup {BadVector}, level \in Levels :
            LET r == insertCall(TheIndex, id, vector, level)
            IN  /\ r.threw <=> (hasExternal(TheIndex, id) \/ vector = BadVector)
                /\ r.threw => r.idx = TheIndex


\* C15: a ShardManager.insert that fails leaves the key list, the resident
\* map, the id map, size and the active-shard counter as they were; no new
\* shard is created.
C15_FailedInsertChangesNothing ==
    [][ (lastOp'.name = "insert" /\ ~lastOp'.ok) =>
            /\ shardKeys' = shardKeys
            /\ DOMAIN loadedShards' = DOMAIN loadedShards
            /\ \A k \in DOMAIN loadedShards :
                   /\ loadedShards'[k].index = loadedShards[k].index
                   /\ loadedShards'[k].dirty = loadedShards[k].dirty
            /\ idToShard' = idToShard
            /\ totalCount' = totalCount
            /\ currentShardCount' = currentShardCount ]_vars

\* The live vectors of the shards, each taken resident if it is resident
\* and from its stored image otherwise.
LiveTotal(w, i) ==
    IF HasState(w, w.shardKeys[i]) THEN IndexSize(getShardIndex(w, w.shardKeys[i])) ELSE 0

RECURSIVE SumLive(_, _)
SumLive(w, i) == IF i > Len(w.shardKeys) THEN 0 ELSE LiveTotal(w, i) + SumLive(w, i + 1)

\* C16: size equals the number of live vectors held across all shards.
C16_SizeCountsLiveVectors == totalCount = SumLive(World, 1)


\* C17: Index.delete(id) returns true exactly when id is present and not
\* tombstoned, and then only sets the tombstone bit and lowers size by one;
\* otherwise it changes nothing; the graph, count, entry point and max level
\* never change, and size never becomes negative.
C17_DeleteOnlySetsTombstone ==
    HasIndex =>
        \A id \in Ids :
            LET idx == TheIndex
                after == delete(idx, id)
                returned == deleteReturns(idx, id)
            IN  /\ returned <=> id \in LiveIds(idx)
                /\ returned =>
                       /\ after.deletedSet = idx.deletedSet \cup {internalOf(idx, id)}
                       /\ internalOf(idx, id) \notin idx.deletedSet
                       /\ IndexSize(after) = IndexSize(idx) - 1
                /\ ~returned => after = idx
                /\ after.vectors = idx.vectors
                /\ after.levels = idx.levels
                /\ after.adjacency = idx.adjacency
                /\ after.neighborCounts = idx.neighborCounts
                /\ after.count = idx.count
                /\ after.entryPointId = idx.entryPointId
                /\ after.maxLevel = idx.maxLevel
                /\ after.internalToExternal = idx.internalToExternal
                /\ IndexSize(after) >= 0

DescentEnd(idx, query) ==
    GreedyDescent(idx, query, idx.maxLevel, 0,
                  [obj |-> idx.entryPointId,
                   dist |-> distanceToQuery(idx, query, idx.entryPointId),
                   changed |-> FALSE]).obj

Layer0Targets(idx, node) ==
    LET row == getNeighbors(idx, node, 0)
    IN  {row[j] : j \in 1..Len(row)} \ {SENTINEL}

RECURSIVE Reach(_, _)
Reach(idx, seen) ==
    LET more == seen \cup UNION {Layer0Targets(idx, n) : n \in seen}
    IN  IF more = seen THEN seen ELSE Reach(idx, more)

RECURSIVE LivePairs(_, _)
LivePairs(idx, i) ==
    IF i >= idx.count THEN << >>
    ELSE (IF i \in idx.deletedSet THEN << >>
          ELSE << [id |-> At(idx.internalToExternal, i), vector |-> At(idx.vectors, i)] >>)
         \o LivePairs(idx, i + 1)

\* C20: compact() returns an index that holds exactly the non-tombstoned
\* (external id, vector) pairs of the source, in the source's internal-id
\* order, with no tombstones.
C20_CompactKeepsLivePairs ==
    HasIndex =>
        \A draws \in [1..Len(IdOrder) -> Levels] :
            LET compacted == compact(TheIndex, draws)
            IN  /\ LivePairs(compacted, 0) = LivePairs(TheIndex, 0)
                /\ compacted.count = IndexSize(TheIndex)
                /\ compacted.deletedSet = {}
                /\ compacted.deletedCount = 0
                /\ \A id \in Ids : hasExternal(compacted, id) <=> id \in LiveIds(TheIndex)


\* The streams of levels a compaction can draw.
Streams == [1..Len(IdOrder) -> Levels]

\* C21: after compact() completes, whatever maxLoadedShards is, every shard
\* of the key list holds the compaction of the index it had and is dirty, or
\* was evicted after that and its compaction was written to the store; size
\* and the id map are unchanged.
C21_CompactReplacesEveryShard ==
    [][ (lastOp'.name = "compact" /\ lastOp'.ok) =>
            /\ \A key \in KeySet(World) :
                   LET prior == getShardIndex(World, key)
                   IN  IF key \in DOMAIN loadedShards'
                       THEN /\ loadedShards'[key].dirty
                            /\ \E draws \in Streams :
                                   loadedShards'[key].index = compact(prior, draws)
                       ELSE /\ key \in Written(writeLog')
                            /\ \E draws \in Streams :
                                   store'[key] = encodeShard(compact(prior, draws))
            /\ totalCount' = totalCount
            /\ idToShard' = idToShard ]_vars


\* C22: every value a generator returns lies strictly between 0 and 1,
\* whatever the seed and however often it was called, so that the level an
\* insert computes from it is finite.
C22_ValuesInOpenInterval ==
    drawn.valid =>
        /\ \E i \in 1..WordBits : drawn.value[i] = 1
        /\ drawn.value[WordBits] = 0
        /\ randomLevel(hnswConfig, drawn.value) # Infinity

\* C23: two indexes built from the same seed and configuration by the same
\* insert and delete calls have the same internal state after every call,
\* and the same encoded image.
C23_SameSeedSameIndex ==
    seed # NoSeed =>
        /\ left = right
        /\ encodeShard(left.index) = encodeShard(right.index)


\* C24: a search returns what the shards held when its fan-out started,
\* resident shards as they were and the others as their stored images
\* were; deletes and inserts that start later do not change its result.
C24_SearchSeesStartSnapshot ==
    fanOut.finished => SameEntries(lastOp.result, fanOut.expected)


\* The adjacency rows of an index: in every layer every allocated node has a
\* row of maxN slots whose first neighborCounts entries are distinct
\* internal ids below count and whose other entries are SENTINEL.
RowsWellFormed(idx) ==
    /\ Len(idx.neighborCounts) = Len(idx.adjacency)
    /\ \A l \in 1..Len(idx.adjacency) :
           /\ Len(idx.adjacency[l]) = idx.count
           /\ Len(idx.neighborCounts[l]) = idx.count
           /\ \A i \in 1..idx.count :
                  LET row == idx.adjacency[l][i]
                      cnt == idx.neighborCounts[l][i]
                      maxN == maxNOf(idx.config, l - 1)
                  IN  /\ Len(row) = maxN
                      /\ cnt \in 0..maxN
                      /\ \A j \in 1..maxN :
                             IF j <= cnt THEN row[j] \in 0..(idx.count - 1)
                             ELSE row[j] = SENTINEL
                      /\ \A j, n \in 1..Min2(cnt, maxN) : j # n => row[j] # row[n]

\* The first id of IdOrder the index does not hold, if there is one.
UnusedIds(idx) ==
    {IdOrder[i] : i \in {n \in 1..Len(IdOrder) :
                            /\ ~hasExternal(idx, IdOrder[n])
                            /\ \A j \in 1..(n - 1) : hasExternal(idx, IdOrder[j])}}

\* C25: after every insert and delete, and after shrinkToFit, decode and an
\* insert that grows the arrays, the adjacency rows are well formed and no
\* neighbor count exceeds Mmax0 at layer 0 or M above it.
C25_AdjacencyRowsWellFormed ==
    HasIndex =>
        LET decoded == decodeShard(encodeShard(TheIndex))
        IN  /\ RowsWellFormed(TheIndex)
            /\ RowsWellFormed(shrinkToFit(TheIndex))
            /\ RowsWellFormed(decoded)
            /\ \A id \in UnusedIds(decoded), vector \in GoodVectors, level \in Levels :
                   /\ decoded.count >= decoded.capacity
                   /\ RowsWellFormed(insert(decoded, id, vector, level))


\* C25 on an index with rows of 256 slots: after every insert the adjacency
\* rows are well formed.
C25_WideRowsWellFormed == RowsWellFormed(left.index)


\* The entry point of an index: none exactly when nothing is allocated,
\* otherwise an allocated node whose level is maxLevel, the greatest level
\* of any allocated node.
EntryPointOk(idx) ==
    /\ idx.entryPointId = -1 <=> idx.count = 0
    /\ idx.count > 0 =>
           /\ idx.entryPointId \in 0..(idx.count - 1)
           /\ At(idx.levels, idx.entryPointId) = idx.maxLevel
           /\ \A i \in 0..(idx.count - 1) : At(idx.levels, i) <= idx.maxLevel

C27_InsertsKeepConnected ==
    (HasIndex /\ TheIndex.deletedCount = 0 /\ TheIndex.count > 0) =>
        Reach(TheIndex, {TheIndex.entryPointId}) = 0..(TheIndex.count - 1)

\* The layers of an index, and the row a slot has at one of them.
LayersOf(idx) == 0..(Len(idx.adjacency) - 1)

RowAt(idx, node, layer) == At(idx.adjacency[layer + 1], node)

\* C28: an insert leaves every tombstoned slot as it was: the slot's rows
\* and neighbor counts at every layer are unchanged, and the rows of the node
\* just inserted do not list it.
C28_TombstonedSlotFrozen ==
    [][ (HasIndex /\ HasIndex' /\ lastOp'.name = "insert"
            /\ TheIndex'.count = TheIndex.count + 1)
        => \A slot \in TheIndex.deletedSet :
               /\ \A l \in LayersOf(TheIndex) :
                      /\ RowAt(TheIndex', slot, l) = RowAt(TheIndex, slot, l)
                      /\ At(TheIndex'.neighborCounts[l + 1], slot)
                             = At(TheIndex.neighborCounts[l + 1], slot)
               /\ \A l \in LayersOf(TheIndex') :
                      At(TheIndex'.levels, TheIndex.count) >= l =>
                          \A j \in 1..Len(getNeighbors(TheIndex', TheIndex.count, l)) :
                              getNeighbors(TheIndex', TheIndex.count, l)[j] # slot ]_vars


\* A step that inserted a node into an index that held at least one.
InsertedInto ==
    /\ HasIndex /\ HasIndex'
    /\ lastOp'.name = "insert"
    /\ TheIndex'.count = TheIndex.count + 1

\* The node that an insert added to `old`, giving `new`, is listed by every
\* neighbor in its rows, unless the neighbor's row held maxN entries in `old`.
BackEdgesAfter(old, new) ==
    LET v == old.count
    IN  \A l \in LayersOf(new) :
            At(new.levels, v) >= l =>
                \A j \in 1..Len(getNeighbors(new, v, l)) :
                    LET n == getNeighbors(new, v, l)[j]
                        back == getNeighbors(new, n, l)
                    IN  \/ \E i \in 1..Len(back) : back[i] = v
                        \/ At(old.neighborCounts[l + 1], n) = maxNOf(old.config, l)

\* C29: right after the insert of node v, every neighbor n in v's row at a
\* layer lists v in its own row at that layer, unless n's row held maxN
\* entries before the insert; and adding a back-edge that a row already
\* holds changes nothing.
C29_BackEdgesAtInsert ==
    [][ InsertedInto =>
            /\ BackEdgesAfter(TheIndex, TheIndex')
            /\ \A l \in LayersOf(TheIndex'), n \in 0..TheIndex.count :
                   At(TheIndex'.levels, n) >= l =>
                       \A j \in 1..Len(getNeighbors(TheIndex', n, l)) :
                           addConnection(TheIndex', n, getNeighbors(TheIndex', n, l)[j], l)
                               = TheIndex' ]_vars

\* C29 on an index with rows of 256 slots: every insert leaves the new node
\* listed by its neighbors whose rows were not full.
C29_WideBackEdges ==
    [][ left.index.count > 0 => BackEdgesAfter(left.index, left'.index) ]_vars


\* No selected candidate is nearer to one selected before it than to the
\* node the candidates were gathered for.
Diverse(idx, selected) ==
    \A j \in 1..Len(selected) : \A i \in 1..(j - 1) :
        distance(idx, selected[j].id, selected[i].id) >= selected[j].distance

\* C30 as claimed: with the heuristic and keepPrunedConnections = false,
\* for a candidate list of any length and any maxN, every selected c has
\* dist(c, s) >= dist(c, query) for each s selected before it, and at most
\* maxN are selected.
C30_HeuristicKeepsDiverse ==
    (selection.valid /\ ~hnswConfig.keepPrunedConnections) =>
        /\ Diverse(left.index, selection.selected)
        /\ Len(selection.selected) <= selection.maxNeighbors

\* C30 as amended: the same for every candidate list longer than maxN; a
\* list of at most maxN candidates is returned as it is, whatever the
\* distances between its candidates.
C30_HeuristicKeepsDiverseWhenLong ==
    (selection.valid /\ ~hnswConfig.keepPrunedConnections) =>
        /\ Len(selection.selected) <= selection.maxNeighbors
        /\ Len(selection.candidates) > selection.maxNeighbors =>
               Diverse(left.index, selection.selected)
        /\ Len(selection.candidates) <= selection.maxNeighbors =>
               selection.selected = selection.candidates


\* C31: every insert that has started returns: its loops come to an end,
\* whatever the state of the index and whatever it is given.
C31_InsertReturns == (running.name = "insert") ~> (running = NoCall)


\* The indexes the manager holds or would decode from the store.
HeldIndexes ==
    {loadedShards[key].index : key \in DOMAIN loadedShards}
        \cup {decodeShard(store[key]) : key \in DOMAIN store}

\* grow() on idx: the capacity it gives, every existing slot as it was, and
\* every adjacency slot from count on equal to SENTINEL.
GrowKeeps(idx) ==
    LET grown == growArrays(ToArrays(idx), idx.config)
        newCapacity == Max2(idx.capacity + 1, CeilDiv(3 * idx.capacity, 2))
    IN  /\ grown.capacity = newCapacity
        /\ grow(idx).capacity = newCapacity
        /\ FromArrays(grown, idx) = [idx EXCEPT !.capacity = newCapacity]
        /\ grow(idx) = [idx EXCEPT !.capacity = newCapacity]
        /\ \A l \in DOMAIN grown.adjacency :
               LET maxN == maxNOf(idx.config, l - 1)
               IN  /\ Len(grown.adjacency[l]) = newCapacity * maxN
                   /\ \A p \in (idx.count * maxN + 1)..(newCapacity * maxN) :
                          grown.adjacency[l][p] = SENTINEL
        /\ 32 * grown.deletedWords >= newCapacity

\* C32: an insert that finds count = capacity, capacity 0 of an index
\* decoded from an empty shard included, makes the capacity
\* max(capacity + 1, ceil(1.5 * capacity)) and leaves every existing slot
\* as it was, every new adjacency slot being SENTINEL; count <= capacity
\* holds after every operation.
C32_GrowKeepsSlots ==
    \A idx \in HeldIndexes :
        /\ idx.count <= idx.capacity
        /\ idx.count >= idx.capacity =>
               /\ GrowKeeps(idx)
               /\ \A id \in UnusedIds(idx), vector \in GoodVectors, level \in Levels :
                      LET after == insert(idx, id, vector, level)
                      IN  /\ after.capacity =
                                 Max2(idx.capacity + 1, CeilDiv(3 * idx.capacity, 2))
                          /\ after.count = idx.count + 1
                          /\ after.count <= after.capacity


\* Two indexes that differ in nothing but the size of their arrays.
SameButCapacity(a, b) == [a EXCEPT !.capacity = 0] = [b EXCEPT !.capacity = 0]

\* shrinkToFit() on idx, array by array: count and every slot below count
\* are as they were, and the arrays hold `capacity` slots.
ShrinkKeeps(idx) ==
    LET shrunk == shrinkArrays(ToArrays(idx), idx.config, idx.count)
        after == shrinkToFit(idx)
    IN  /\ after.capacity = shrunk.capacity
        /\ FromArrays(shrunk, idx) = after
        /\ SameButCapacity(after, idx)
        /\ Len(shrunk.vectors) = shrunk.capacity * idx.config.dimensions
        /\ Len(shrunk.levels) = shrunk.capacity
        /\ \A l \in DOMAIN shrunk.adjacency :
               /\ Len(shrunk.adjacency[l]) = shrunk.capacity * maxNOf(idx.config, l - 1)
               /\ Len(shrunk.neighborCounts[l]) = shrunk.capacity

\* The index that was cut and the one that was not have been given the
\* same calls since: they hold the same slots and answer every search alike.
LaterAlike ==
    right # NoIndex =>
        /\ SameButCapacity(left.index, right.index)
        /\ left.rng = right.rng
        /\ \A query \in GoodVectors, k \in 1..(left.index.count + 1) :
               search(left.index, query, k, 0, Ids) = search(right.index, query, k, 0, Ids)

\* C33: after shrinkToFit() on any index, fresh, grown or decoded, the
\* capacity is count, or 1 if count = 0, and count and every slot below
\* count are unchanged, so that later inserts and searches behave as
\* before.
C33_ShrinkToFitTight ==
    /\ shrinkToFit(left.index).capacity =
           (IF left.index.count = 0 THEN 1 ELSE left.index.count)
    /\ ShrinkKeeps(left.index)
    /\ LaterAlike

\* C33, amended: shrinkToFit() leaves an index whose capacity equals its
\* count as it is, capacity 0 of a decoded empty index included; any other
\* index gets capacity max(1, count).  count and every slot below count are
\* unchanged, and later inserts and searches behave as before.
C33_ShrinkToFitUnlessTight ==
    /\ shrinkToFit(left.index).capacity =
           (IF left.index.capacity = left.index.count THEN left.index.capacity
            ELSE Max2(1, left.index.count))
    /\ ShrinkKeeps(left.index)
    /\ LaterAlike


\* C34: shard keys are never reused: after any sequence of operations, a
\* reopen over whatever shards had reached the store included, the keys of
\* the key list are pairwise distinct, so that creating a shard never
\* replaces an existing one.
C34_ShardKeysDistinct ==
    \A i, j \in 1..Len(shardKeys) : i # j => shardKeys[i] # shardKeys[j]


\* C35: for every maxLoadedShards >= 1, the shard that getShard hands to
\* delete is in the resident map when it is mutated and marked dirty: after
\* a delete that returned true the shard of the id is resident and dirty
\* and holds the tombstone, so that a later flush or eviction writes it and
\* a later search reads it.
C35_DeleteMutatesResidentShard ==
    [][ (lastOp'.name = "delete" /\ lastOp'.returned) =>
            LET key == idToShard[lastOp'.id]
            IN  /\ key \in DOMAIN loadedShards'
                /\ loadedShards'[key].dirty
                /\ internalOf(loadedShards'[key].index, lastOp'.id)
                       \in loadedShards'[key].index.deletedSet ]_vars


\* C36: without a store eviction never discards a shard: every key of the
\* key list is resident, however many shards the inserts created, and every
\* search completes without a shard-not-loaded error.
C36_NoStoreKeepsEveryShard ==
    ~hasStorage =>
        /\ \A key \in KeySet(World) : key \in DOMAIN loadedShards
        /\ lastOp.name = "search" => lastOp.ok


\* C37: an insert or delete that completes while a flush's write of its
\* shard is in flight leaves the shard dirty after the flush resolves: when
\* flush has returned, every resident shard that is not dirty has in the
\* store the image of the index it holds.
C37_MutationDuringFlushStaysDirty ==
    (lastOp.name = "flush" /\ lastOp.ok) =>
        \A key \in DOMAIN loadedShards :
            \/ loadedShards[key].dirty
            \/ /\ key \in DOMAIN store
               /\ store[key] = encodeShard(loadedShards[key].index)


\* C38: after delete(id) returned true, a later insert(id, v) with a vector
\* of the right length succeeds and makes id searchable again, whichever
\* shard is the write shard at that time.
C38_DeletedIdCanBeInsertedAgain ==
    \A id \in deletedIds, vector \in GoodVectors, level \in Levels :
        LET r == managerInsert(World, id, vector, level)
        IN  /\ r.ok
            /\ id \in SearchableIds(r.w)


\* Every entry of a row is another slot of the index whose stored level
\* reaches the row's layer, and a row above its node's stored level is empty.
RowsPointWithinLayer(idx) ==
    \A l \in DOMAIN idx.adjacency, i \in 0..(idx.count - 1) :
        /\ \A n \in 1..Len(getNeighbors(idx, i, l - 1)) :
               LET j == getNeighbors(idx, i, l - 1)[n]
               IN  /\ j # i
                   /\ j \in 0..(idx.count - 1)
                   /\ At(idx.levels, j) >= l - 1
        /\ l - 1 > At(idx.levels, i) => At(idx.neighborCounts[l], i) = 0

\* C39: after any sequence of inserts, every entry j of node i's row at
\* layer l is another node (j # i) that takes part in layer l
\* (levels[j] >= l), and a node has no neighbors at a layer above its own
\* level.
C39_RowsPointWithinLayer ==
    lastOp.name = "insert" => RowsPointWithinLayer(left.index)

\* ------------------------------------------------- reached cases
\* C7: a search over two shards or more pushed more than k results and its
\* first result came from a shard after the first.
C7_Witness ==
    /\ SearchDone
    /\ Len(lastOp.allResults) >= 2
    /\ Len(Pushed) > lastOp.k
    /\ Len(lastOp.result) = lastOp.k
    /\ lastOp.result[1].id \notin ResultIds(lastOp.allResults[1])

\* C8: a search pushed exactly two results, of equal distance, from two
\* shards, and returned both.
C8_Witness ==
    /\ SearchDone
    /\ Len(lastOp.allResults) = 2
    /\ Len(lastOp.allResults[1]) = 1
    /\ Len(lastOp.allResults[2]) = 1
    /\ Pushed[1].distance = Pushed[2].distance
    /\ Pushed[1].id # Pushed[2].id
    /\ Len(lastOp.result) = 2

\* C9: the last operation evicted a shard and left the resident map full.
C9_Witness ==
    /\ evictLog # << >>
    /\ Len(shardKeys) > shardConfig.maxLoadedShards
    /\ Cardinality(DOMAIN loadedShards) = shardConfig.maxLoadedShards

\* C10: the last operation handed out ticks and evicted a shard when two
\* shards other than the current one were resident.
C10_Witness ==
    /\ touchLog # << >>
    /\ \E n \in 1..Len(evictLog) :
           Cardinality(DOMAIN evictLog[n].resident \ {evictLog[n].current}) >= 2

\* C11: a successful flush wrote a dirty shard while a clean shard was
\* resident.
C11_Witness ==
    /\ lastOp.name = "flush" /\ lastOp.ok /\ hasStorage
    /\ writeLog # << >>
    /\ DOMAIN loadedShards \ Written(writeLog) # {}

\* C12: a flush failed after one shard's write was acknowledged; that shard
\* is clean and another is still dirty.
C12_Witness ==
    /\ lastOp.name = "flush" /\ ~lastOp.ok
    /\ \E k \in lastOp.acked : k \in DOMAIN loadedShards /\ ~loadedShards[k].dirty
    /\ \E k \in DOMAIN loadedShards : loadedShards[k].dirty

\* C13: a close failed in its flush and the shards are still resident.
C13_Witness ==
    /\ lastOp.name = "close" /\ ~lastOp.ok
    /\ \E k \in DOMAIN loadedShards : loadedShards[k].dirty

\* C14: the index holds a live id and a tombstoned id, and the last insert
\* into it failed.
C14_Witness ==
    /\ HasIndex
    /\ LiveIds(TheIndex) # {}
    /\ TombstonedIds(TheIndex) # {}
    /\ lastOp.name = "insert" /\ ~lastOp.ok

\* C17: the last delete returned true on an index that now holds a live id
\* and a tombstoned id.
C17_Witness ==
    /\ HasIndex
    /\ lastOp.name = "delete" /\ lastOp.returned
    /\ LiveIds(TheIndex) # {}
    /\ TombstonedIds(TheIndex) # {}

C20_Witness ==
    /\ HasIndex
    /\ \E i \in TheIndex.deletedSet : \E j \in 0..(TheIndex.count - 1) :
           i < j /\ j \notin TheIndex.deletedSet
    /\ compact(TheIndex, [n \in 1..Len(IdOrder) |-> 0]).count < TheIndex.count

\* C23: two seeded indexes hold three nodes, one above layer 0, after an
\* insert that drew a level.
C23_Witness ==
    /\ seed # NoSeed
    /\ lastOp.name = "insert" /\ lastOp.ok /\ drawn.valid
    /\ left.index.count = 3
    /\ left.index.maxLevel > 0


\* C25: an index of three nodes and two layers with Mmax0 = 1, so that the
\* third insert found a full row; layer 1 holds a linked row and an empty one.
C25_Witness ==
    /\ HasIndex
    /\ TheIndex.count = 3
    /\ Len(TheIndex.adjacency) >= 2
    /\ TheIndex.config.Mmax0 = 1
    /\ \A i \in 1..3 : TheIndex.neighborCounts[1][i] = 1
    /\ \E i \in 1..3 : TheIndex.neighborCounts[2][i] > 0
    /\ \E i \in 1..3 : TheIndex.neighborCounts[2][i] = 0

C29_Witness ==
    /\ HasIndex
    /\ lastOp.name = "insert" /\ lastOp.ok
    /\ TheIndex.count = 3
    /\ Len(TheIndex.adjacency) >= 2
    /\ At(TheIndex.levels, 2) >= 1
    /\ \E j \in 1..Len(getNeighbors(TheIndex, 2, 1)) :
           LET back == getNeighbors(TheIndex, getNeighbors(TheIndex, 2, 1)[j], 1)
           IN  \E i \in 1..Len(back) : back[i] = 2
    /\ \E j \in 1..Len(getNeighbors(TheIndex, 2, 0)) :
           LET back == getNeighbors(TheIndex, getNeighbors(TheIndex, 2, 0)[j], 0)
           IN  /\ Len(back) = TheIndex.config.Mmax0
               /\ \A i \in 1..Len(back) : back[i] # 2


\* C30: three candidates for two places, of which the main pass kept one
\* and discarded two.
C30_Witness ==
    /\ selection.valid
    /\ ~hnswConfig.keepPrunedConnections
    /\ Len(selection.candidates) = 3
    /\ selection.maxNeighbors = 2
    /\ Len(selection.selected) = 1

\* C32: an insert has grown the arrays of an index that had been decoded
\* from the store.
C32_Witness ==
    /\ lastOp.name = "insert"
    /\ lastOp.ok
    /\ \E idx \in {loadedShards[key].index : key \in DOMAIN loadedShards} :
           /\ idx.capacity < INITIAL_CAPACITY
           /\ idx.count >= 2
           /\ loadedShards[idToShard[lastOp.id]].index = idx

\* C32: the store holds an empty shard, which decodes to capacity 0.
C32_EmptyDecoded == \E idx \in HeldIndexes : idx.capacity = 0

\* C33: an index was cut by shrinkToFit and has been given an insert since,
\* as has the index that was not cut.
C33_Witness ==
    /\ right # NoIndex
    /\ lastOp.name = "insert"
    /\ lastOp.ok
    /\ left.index.capacity # right.index.capacity
    /\ left.index.count >= 2

====
